---------------------------- MODULE Spec2Model ----------------------------
(***************************************************************************)
(* Kinnara: binding inference (BindGroups::new) over a naga module and the *)
(* resource fulfilment protocol (BindSlot / PassSlot) used by              *)
(* ComputeReflector::create_bind_group, UnboundComputePipeline::bind and   *)
(* BoundComputePipeline::create_pass.                                      *)
(*                                                                         *)
(* Conventions: Option<T> is a sequence of length <= 1 (None = <<>>,       *)
(* Some(v) = <<v>>); Result<T, E> is a record with a boolean field ok;     *)
(* Vec indices are 0-based in the code and 1-based in TLA+ sequences, so a *)
(* code index i reads element i + 1.                                       *)
(***************************************************************************)
EXTENDS Integers, Sequences, FiniteSets, TLC

None == <<>>
Some(v) == <<v>>
is_some(o) == o # <<>>
unwrap(o) == o[1]

Ok(v) == [ok |-> TRUE, val |-> v]
Err(e) == [ok |-> FALSE, err |-> e]

(***************************************************************************)
(* The build profile: integer overflow panics when overflow checks are on  *)
(* (the default of a debug build) and wraps when they are off (the default *)
(* of a release build).                                                    *)
(***************************************************************************)
VARIABLE overflow_checks

(***************************************************************************)
(* u32: a 32-bit unsigned integer is kept as two 16-bit limbs, the value   *)
(* being hi * LIMB + lo, so that the values next to 2^32 - 1 are           *)
(* representable and the width of the arithmetic is the width of the code. *)
(***************************************************************************)
LIMB == 65536

\* the u32 of a number below LIMB * LIMB
u32(n) == [hi |-> n \div LIMB, lo |-> n % LIMB]

\* a <= b on u32
u32_le(a, b) == a.hi < b.hi \/ (a.hi = b.hi /\ a.lo <= b.lo)

\* u32 % 4: LIMB is a multiple of 4
u32_rem4(a) == a.lo % 4

\* a + k for a small k, as the unbounded sum [carry, hi, lo]
u32_add(a, k) ==
    LET lo == a.lo + k
        hi == a.hi + (lo \div LIMB)
    IN  [carry |-> hi \div LIMB, hi |-> hi % LIMB, lo |-> lo % LIMB]

(***************************************************************************)
(* Bounds of the model                                                     *)
(***************************************************************************)
MaxGlobals == 2
MaxGroup == 1
MaxBinding == 1

Groups == 0..MaxGroup
BindingNumbers == 0..MaxBinding

\* naga::ResourceBinding
ResourceBinding(g, b) == [group |-> g, binding |-> b]
Locations == {ResourceBinding(g, b) : g \in Groups, b \in BindingNumbers}

(***************************************************************************)
(* module.types: the type arena of the naga module.  A handle outside the  *)
(* arena is a handle get_handle() cannot resolve.  size is what            *)
(* TypeInner::size reports for the type: the span of a struct, 0 for the   *)
(* opaque types and for a binding array.                                   *)
(***************************************************************************)
LOAD == "LOAD"
STORE == "STORE"
StorageAccessSets == SUBSET {LOAD, STORE}

TypeHandles ==
    {"Struct", "Accel", "Sampler", "SamplerCmp", "ImageSampled", "ImageDepth",
     "ImageStorage", "ArrStruct", "ArrImage", "ArrSampler", "ArrDangling", "Scalar"}

\* a handle that is not in the arena
Dangling == "Dangling"

ModuleTypes ==
    [h \in TypeHandles |->
        CASE h = "Struct" -> [inner |-> "Struct", size |-> u32(8)]
          [] h = "Accel" -> [inner |-> "AccelerationStructure", size |-> u32(0)]
          [] h = "Sampler" -> [inner |-> "Sampler", comparison |-> FALSE, size |-> u32(0)]
          [] h = "SamplerCmp" -> [inner |-> "Sampler", comparison |-> TRUE, size |-> u32(0)]
          [] h = "ImageSampled" ->
                [inner |-> "Image", dim |-> "ImageDimension::D2", size |-> u32(0),
                 class |-> [class |-> "Sampled", kind |-> "Float", multi |-> FALSE]]
          [] h = "ImageDepth" ->
                [inner |-> "Image", dim |-> "ImageDimension::Cube", size |-> u32(0),
                 class |-> [class |-> "Depth", multi |-> TRUE]]
          [] h = "ImageStorage" ->
                [inner |-> "Image", dim |-> "ImageDimension::D2", size |-> u32(0),
                 class |-> [class |-> "Storage", format |-> "StorageFormat::R32Float",
                            access |-> {STORE}]]
          [] h = "ArrStruct" ->
                [inner |-> "BindingArray", base |-> "Struct", size |-> u32(0),
                 array_size |-> [kind |-> "Constant", n |-> 2]]
          [] h = "ArrImage" ->
                [inner |-> "BindingArray", base |-> "ImageSampled", size |-> u32(0),
                 array_size |-> [kind |-> "Constant", n |-> 3]]
          [] h = "ArrSampler" ->
                [inner |-> "BindingArray", base |-> "Sampler", size |-> u32(0),
                 array_size |-> [kind |-> "Dynamic", n |-> 0]]
          [] h = "ArrDangling" ->
                [inner |-> "BindingArray", base |-> Dangling, size |-> u32(0),
                 array_size |-> [kind |-> "Constant", n |-> 2]]
          [] OTHER -> [inner |-> "Scalar", size |-> u32(4)]]

\* module.types.get_handle(ty): Err(BadHandle) for a handle outside the arena
get_handle(types, ty) ==
    IF ty \in DOMAIN types THEN Ok(types[ty]) ELSE Err("BadHandle")

(***************************************************************************)
(* bind_group/naga_utils.rs                                                *)
(***************************************************************************)
\* NonZeroU32::new, on the array counts
NonZero(n) == IF n = 0 THEN None ELSE Some(n)

\* NonZeroU64::new(size as u64), on the byte sizes
NonZeroU64(n) == IF n = u32(0) THEN None ELSE Some(n)

type_size(types, ty) ==
    LET type_actual == get_handle(types, ty)
    IN  IF ~type_actual.ok THEN None ELSE NonZeroU64(type_actual.val.size)

type_array_ct(types, ty) ==
    LET type_actual == get_handle(types, ty)
    IN  IF ~type_actual.ok THEN None
        ELSE IF type_actual.val.inner = "BindingArray"
             THEN IF type_actual.val.array_size.kind = "Constant"
                  THEN Some(type_actual.val.array_size.n)
                  ELSE NonZero(1)
             ELSE None

image_dim(dim) ==
    CASE dim = "ImageDimension::D1" -> "TextureViewDimension::D1"
      [] dim = "ImageDimension::D2" -> "TextureViewDimension::D2"
      [] dim = "ImageDimension::D3" -> "TextureViewDimension::D3"
      [] dim = "ImageDimension::Cube" -> "TextureViewDimension::Cube"

texture_fmt(fmt) ==
    CASE fmt = "StorageFormat::R32Float" -> "TextureFormat::R32Float"
      [] fmt = "StorageFormat::Rgba8Unorm" -> "TextureFormat::Rgba8Unorm"
      [] fmt = "StorageFormat::Rgba32Float" -> "TextureFormat::Rgba32Float"

sample_kind(kind) ==
    CASE kind = "Sint" -> [sample |-> "Sint", filterable |-> FALSE]
      [] kind = "Uint" -> [sample |-> "Uint", filterable |-> FALSE]
      [] kind = "Float" -> [sample |-> "Float", filterable |-> TRUE]
      [] kind = "Bool" -> [sample |-> "Uint", filterable |-> FALSE]

RECURSIVE get_image_information(_, _)
get_image_information(types, ty) ==
    LET type_actual == get_handle(types, ty)
    IN  IF ~type_actual.ok THEN None
        ELSE IF type_actual.val.inner = "Image"
             THEN IF type_actual.val.class.class = "Storage"
                  THEN Some(<<texture_fmt(type_actual.val.class.format),
                              image_dim(type_actual.val.dim)>>)
                  ELSE None
             ELSE IF type_actual.val.inner = "BindingArray"
                  THEN get_image_information(types, type_actual.val.base)
                  ELSE None

RECURSIVE is_image(_, _)
is_image(types, ty) ==
    LET type_actual == get_handle(types, ty)
    IN  IF ~type_actual.ok THEN Err("NoSuchHandle")
        ELSE IF type_actual.val.inner = "Image" THEN Ok(TRUE)
             ELSE IF type_actual.val.inner = "BindingArray"
                  THEN is_image(types, type_actual.val.base)
                  ELSE Ok(FALSE)

\* a mapping that looks at the write bit alone
storage_access_write_bit(access) ==
    IF STORE \in access THEN "WriteOnly" ELSE "ReadOnly"

storage_access(access) ==
    LET r == LOAD \in access
        w == STORE \in access
    IN  IF r /\ w THEN "ReadWrite"
        ELSE IF ~r /\ w THEN "WriteOnly"
        ELSE "ReadOnly"

(***************************************************************************)
(* preprocessing: hints.  A patch holds Option<field> per field; apply     *)
(* overwrites every field the patch sets.                                  *)
(***************************************************************************)
UniformHintDefault ==
    [dynamic_offset |-> FALSE, calculate_min_binding_size |-> FALSE]

SamplerHintDefault ==
    [filter |-> "Nearest", wrap |-> "ClampToEdge", comparison |-> None]

UniformHintPatchDefault ==
    [dynamic_offset |-> None, calculate_min_binding_size |-> None]

SamplerHintPatchDefault ==
    [filter |-> None, wrap |-> None, comparison |-> None]

DirectivesDefault ==
    [uniform_hint_base |-> UniformHintPatchDefault,
     uniform_hints |-> <<>>,
     sampler_hint_base |-> SamplerHintPatchDefault,
     sampler_hint |-> <<>>]

\* a preprocessor that reads a dynamic-offset default for every uniform
process_hinted(source) ==
    IF source.language \in {"Glsl", "Wgsl"}
    THEN Ok(<<[DirectivesDefault EXCEPT !.uniform_hint_base.dynamic_offset = Some(TRUE)],
              source>>)
    ELSE Err("UnsupportedSource")

\* preprocessing::process: (directives, source), the directives being the
\* default and the source a copy of its input
process(source) ==
    IF source.language \in {"Glsl", "Wgsl"}
    THEN Ok(<<DirectivesDefault, source>>)
    ELSE Err("UnsupportedSource")

\* struct_patch: Patch::apply
apply(hint, patch) ==
    [f \in DOMAIN hint |-> IF is_some(patch[f]) THEN unwrap(patch[f]) ELSE hint[f]]

\* HashMap::get(..).cloned().unwrap_or_default()
get_or_default(map, key, default) ==
    IF key \in DOMAIN map THEN map[key] ELSE default

get_uniform_hint(d, binding) ==
    LET hint == get_or_default(d.uniform_hints, binding, UniformHintDefault)
    IN  apply(hint, d.uniform_hint_base)

get_sampler_hint(d, binding) ==
    LET hint == get_or_default(d.sampler_hint, binding, SamplerHintDefault)
    IN  apply(hint, d.sampler_hint_base)

(***************************************************************************)
(* bind_group/mod.rs: the type classifier                                  *)
(***************************************************************************)
Buffer(ty, has_dynamic_offset, min_binding_size) ==
    [kind |-> "Buffer", ty |-> ty, has_dynamic_offset |-> has_dynamic_offset,
     min_binding_size |-> min_binding_size]

BufferUniform == [buf |-> "Uniform", read_only |-> FALSE]
BufferStorage(read_only) == [buf |-> "Storage", read_only |-> read_only]

\* a classifier that computes min_binding_size whatever the hint
infer_uniform_binding_type_sized(types, global, uniform_hint) ==
    LET min_binding_size == type_size(types, global.ty)
        type_actual == get_handle(types, global.ty)
        is_acc_struct ==
            type_actual.ok /\ type_actual.val.inner = "AccelerationStructure"
    IN  IF is_acc_struct
        THEN [kind |-> "AccelerationStructure"]
        ELSE Buffer(BufferUniform, uniform_hint.dynamic_offset, min_binding_size)

infer_uniform_binding_type(types, global, uniform_hint) ==
    LET min_binding_size ==
            IF uniform_hint.calculate_min_binding_size
            THEN type_size(types, global.ty)
            ELSE None
        type_actual == get_handle(types, global.ty)
        is_acc_struct ==
            type_actual.ok /\ type_actual.val.inner = "AccelerationStructure"
    IN  IF is_acc_struct
        THEN [kind |-> "AccelerationStructure"]
        ELSE Buffer(BufferUniform, uniform_hint.dynamic_offset, min_binding_size)

\* a classifier for which a storage buffer is read-only when its access has the
\* read bit
infer_storage_binding_type_contains(access, uniform_hint, types, ty) ==
    LET img == is_image(types, ty)
    IN  IF ~img.ok THEN Err("MissingTypeHandle")
        ELSE IF img.val
        THEN LET info == get_image_information(types, ty)
             IN  IF ~is_some(info) THEN Err("MissingTypeHandle")
                 ELSE Ok([kind |-> "StorageTexture",
                          access |-> storage_access(access),
                          format |-> unwrap(info)[1],
                          view_dimension |-> unwrap(info)[2]])
        ELSE LET min_binding_size ==
                     IF uniform_hint.calculate_min_binding_size
                     THEN type_size(types, ty)
                     ELSE None
             IN  Ok(Buffer(BufferStorage(LOAD \in access),
                           uniform_hint.dynamic_offset, min_binding_size))

infer_storage_binding_type(access, uniform_hint, types, ty) ==
    LET img == is_image(types, ty)
    IN  IF ~img.ok THEN Err("MissingTypeHandle")
        ELSE IF img.val
        THEN LET info == get_image_information(types, ty)
             IN  IF ~is_some(info) THEN Err("MissingTypeHandle")
                 ELSE Ok([kind |-> "StorageTexture",
                          access |-> storage_access(access),
                          format |-> unwrap(info)[1],
                          view_dimension |-> unwrap(info)[2]])
        ELSE LET min_binding_size ==
                     IF uniform_hint.calculate_min_binding_size
                     THEN type_size(types, ty)
                     ELSE None
             IN  Ok(Buffer(BufferStorage(access = {LOAD}),
                           uniform_hint.dynamic_offset, min_binding_size))

\* a classifier that lets a Linear hint decide before the comparison flag
RECURSIVE infer_handle_binding_type_hint_first(_, _, _, _)
infer_handle_binding_type_hint_first(d, binding, types, ty) ==
    LET type_actual == get_handle(types, ty)
    IN  IF ~type_actual.ok THEN Err("MissingTypeHandle")
        ELSE LET inner == type_actual.val
             IN  CASE inner.inner = "Sampler" ->
                        LET sampler_hint == get_sampler_hint(d, binding)
                        IN  IF sampler_hint.filter = "Linear"
                            THEN Ok([kind |-> "Sampler", sampler |-> "Filtering"])
                            ELSE IF inner.comparison
                                 THEN Ok([kind |-> "Sampler", sampler |-> "Comparison"])
                                 ELSE Ok([kind |-> "Sampler", sampler |-> "NonFiltering"])
                   [] inner.inner = "Image" ->
                        (CASE inner.class.class = "Sampled" ->
                               Ok([kind |-> "Texture",
                                   view_dimension |-> image_dim(inner.dim),
                                   sample_type |-> sample_kind(inner.class.kind),
                                   multisampled |-> inner.class.multi])
                          [] inner.class.class = "Depth" ->
                               Ok([kind |-> "Texture",
                                   view_dimension |-> image_dim(inner.dim),
                                   sample_type |-> [sample |-> "Depth", filterable |-> FALSE],
                                   multisampled |-> inner.class.multi])
                          [] inner.class.class = "Storage" ->
                               Ok([kind |-> "StorageTexture",
                                   access |-> storage_access(inner.class.access),
                                   format |-> texture_fmt(inner.class.format),
                                   view_dimension |-> image_dim(inner.dim)]))
                   [] inner.inner = "BindingArray" ->
                        infer_handle_binding_type_hint_first(d, binding, types, inner.base)
                   [] OTHER -> Err("UnexpectedType")

\* a classifier with the two filter modes exchanged
RECURSIVE infer_handle_binding_type_swapped(_, _, _, _)
infer_handle_binding_type_swapped(d, binding, types, ty) ==
    LET type_actual == get_handle(types, ty)
    IN  IF ~type_actual.ok THEN Err("MissingTypeHandle")
        ELSE LET inner == type_actual.val
             IN  CASE inner.inner = "Sampler" ->
                        LET sampler_hint == get_sampler_hint(d, binding)
                        IN  IF inner.comparison
                            THEN Ok([kind |-> "Sampler", sampler |-> "Comparison"])
                            ELSE IF sampler_hint.filter = "Nearest"
                                 THEN Ok([kind |-> "Sampler", sampler |-> "Filtering"])
                                 ELSE Ok([kind |-> "Sampler", sampler |-> "NonFiltering"])
                   [] inner.inner = "Image" ->
                        (CASE inner.class.class = "Sampled" ->
                               Ok([kind |-> "Texture",
                                   view_dimension |-> image_dim(inner.dim),
                                   sample_type |-> sample_kind(inner.class.kind),
                                   multisampled |-> inner.class.multi])
                          [] inner.class.class = "Depth" ->
                               Ok([kind |-> "Texture",
                                   view_dimension |-> image_dim(inner.dim),
                                   sample_type |-> [sample |-> "Depth", filterable |-> FALSE],
                                   multisampled |-> inner.class.multi])
                          [] inner.class.class = "Storage" ->
                               Ok([kind |-> "StorageTexture",
                                   access |-> storage_access(inner.class.access),
                                   format |-> texture_fmt(inner.class.format),
                                   view_dimension |-> image_dim(inner.dim)]))
                   [] inner.inner = "BindingArray" ->
                        infer_handle_binding_type_swapped(d, binding, types, inner.base)
                   [] OTHER -> Err("UnexpectedType")

RECURSIVE infer_handle_binding_type(_, _, _, _)
infer_handle_binding_type(d, binding, types, ty) ==
    LET type_actual == get_handle(types, ty)
    IN  IF ~type_actual.ok THEN Err("MissingTypeHandle")
        ELSE LET inner == type_actual.val
             IN  CASE inner.inner = "Sampler" ->
                        LET sampler_hint == get_sampler_hint(d, binding)
                        IN  IF inner.comparison
                            THEN Ok([kind |-> "Sampler", sampler |-> "Comparison"])
                            ELSE IF sampler_hint.filter = "Nearest"
                                 THEN Ok([kind |-> "Sampler", sampler |-> "NonFiltering"])
                                 ELSE Ok([kind |-> "Sampler", sampler |-> "Filtering"])
                   [] inner.inner = "Image" ->
                        (CASE inner.class.class = "Sampled" ->
                               Ok([kind |-> "Texture",
                                   view_dimension |-> image_dim(inner.dim),
                                   sample_type |-> sample_kind(inner.class.kind),
                                   multisampled |-> inner.class.multi])
                          [] inner.class.class = "Depth" ->
                               Ok([kind |-> "Texture",
                                   view_dimension |-> image_dim(inner.dim),
                                   sample_type |-> [sample |-> "Depth", filterable |-> FALSE],
                                   multisampled |-> inner.class.multi])
                          [] inner.class.class = "Storage" ->
                               Ok([kind |-> "StorageTexture",
                                   access |-> storage_access(inner.class.access),
                                   format |-> texture_fmt(inner.class.format),
                                   view_dimension |-> image_dim(inner.dim)]))
                   [] inner.inner = "BindingArray" ->
                        infer_handle_binding_type(d, binding, types, inner.base)
                   [] OTHER -> Err("UnexpectedType")

\* u32::next_multiple_of(4): self + (4 - r) panics on overflow in a build with
\* overflow checks and wraps in a build without
next_multiple_of_4(size) ==
    LET r == u32_rem4(size)
        sum == u32_add(size, 4 - r)
    IN  IF r = 0 THEN Ok(size)
        ELSE IF sum.carry = 0 THEN Ok([hi |-> sum.hi, lo |-> sum.lo])
        ELSE IF overflow_checks THEN Err("panic: attempt to add with overflow")
        ELSE Ok([hi |-> sum.hi, lo |-> sum.lo])

push_constant_ranges(stages, types, ty) ==
    LET type_actual == get_handle(types, ty)
    IN  IF ~type_actual.ok THEN Err("MissingTypeHandle")
        ELSE LET size == next_multiple_of_4(type_actual.val.size)
             IN  IF ~size.ok THEN size
                 ELSE Ok(Some([tag |-> "PushConstant",
                               pc |-> [stages |-> stages,
                                       range |-> [start |-> u32(0), end |-> size.val]]]))

(***************************************************************************)
(* bind_group/mod.rs: GlobalVar                                            *)
(***************************************************************************)
\* an entry that is visible to the compute stage alone
new_uniform_compute(ty, global, types, visibility) ==
    LET count == type_array_ct(types, global.ty)
    IN  IF is_some(global.binding)
        THEN Some([tag |-> "Uniform",
                   info |-> [entry |-> [binding |-> unwrap(global.binding).binding,
                                        visibility |-> {"COMPUTE"},
                                        ty |-> ty,
                                        count |-> count],
                             binding |-> unwrap(global.binding),
                             name |-> global.name]])
        ELSE None

new_uniform(ty, global, types, visibility) ==
    LET count == type_array_ct(types, global.ty)
    IN  IF is_some(global.binding)
        THEN Some([tag |-> "Uniform",
                   info |-> [entry |-> [binding |-> unwrap(global.binding).binding,
                                        visibility |-> visibility,
                                        ty |-> ty,
                                        count |-> count],
                             binding |-> unwrap(global.binding),
                             name |-> global.name]])
        ELSE None

process_global_var(d, types, global, visibility) ==
    CASE global.space \in {"Function", "Private", "WorkGroup"} -> Ok(None)
      [] global.space = "Uniform" ->
            IF ~is_some(global.binding) THEN Ok(None)
            ELSE LET uniform_hint == get_uniform_hint(d, unwrap(global.binding))
                     binding == infer_uniform_binding_type(types, global, uniform_hint)
                 IN  Ok(new_uniform(binding, global, types, visibility))
      [] global.space = "Storage" ->
            IF ~is_some(global.binding) THEN Ok(None)
            ELSE LET uniform_hint == get_uniform_hint(d, unwrap(global.binding))
                     binding == infer_storage_binding_type(global.access, uniform_hint,
                                                           types, global.ty)
                 IN  IF ~binding.ok THEN binding
                     ELSE Ok(new_uniform(binding.val, global, types, visibility))
      [] global.space = "Handle" ->
            IF ~is_some(global.binding) THEN Ok(None)
            ELSE LET binding == infer_handle_binding_type(d, unwrap(global.binding),
                                                          types, global.ty)
                 IN  IF ~binding.ok THEN binding
                     ELSE Ok(new_uniform(binding.val, global, types, visibility))
      [] global.space = "PushConstant" ->
            push_constant_ranges(visibility, types, global.ty)

\* HashMap::insert
insert(map, key, value) ==
    [k \in (DOMAIN map) \cup {key} |-> IF k = key THEN value ELSE map[k]]

\* an update that keeps each group sorted by binding number
update_entry_map_sorted(info, t) ==
    LET needed_len == info.binding.group + 1
        grown == IF Len(t.bindings) < needed_len
                 THEN t.bindings \o [i \in 1..(needed_len - Len(t.bindings)) |-> <<>>]
                 ELSE t.bindings
        group == grown[info.binding.group + 1]
        below == SelectSeq(group, LAMBDA e : e.binding <= info.entry.binding)
        above == SelectSeq(group, LAMBDA e : e.binding > info.entry.binding)
        pushed == [grown EXCEPT ![info.binding.group + 1] =
                                    below \o <<info.entry>> \o above]
        shifted == [k \in DOMAIN t.entry_map |->
                       IF t.entry_map[k].set_idx = info.binding.group
                          /\ k.binding > info.entry.binding
                       THEN [t.entry_map[k] EXCEPT !.entry_idx = @ + 1]
                       ELSE t.entry_map[k]]
    IN  [t EXCEPT !.bindings = pushed,
                  !.entry_map = insert(shifted, info.binding,
                                       [set_idx |-> info.binding.group,
                                        entry_idx |-> Len(below),
                                        name |-> info.name])]

\* an update that records the length of the group as the entry index
update_entry_map_len(info, t) ==
    LET needed_len == info.binding.group + 1
        grown == IF Len(t.bindings) < needed_len
                 THEN t.bindings \o [i \in 1..(needed_len - Len(t.bindings)) |-> <<>>]
                 ELSE t.bindings
        pushed == [grown EXCEPT ![info.binding.group + 1] = Append(@, info.entry)]
        entry_idx == Len(pushed[info.binding.group + 1])
    IN  [t EXCEPT !.bindings = pushed,
                  !.entry_map = insert(t.entry_map, info.binding,
                                       [set_idx |-> info.binding.group,
                                        entry_idx |-> entry_idx,
                                        name |-> info.name])]

\* the table under construction: bindings, entry_map, push_constant_range
update_entry_map(info, t) ==
    LET needed_len == info.binding.group + 1
        grown == IF Len(t.bindings) < needed_len
                 THEN t.bindings \o [i \in 1..(needed_len - Len(t.bindings)) |-> <<>>]
                 ELSE t.bindings
        pushed == [grown EXCEPT ![info.binding.group + 1] = Append(@, info.entry)]
        entry_idx == Len(pushed[info.binding.group + 1]) - 1
    IN  [t EXCEPT !.bindings = pushed,
                  !.entry_map = insert(t.entry_map, info.binding,
                                       [set_idx |-> info.binding.group,
                                        entry_idx |-> entry_idx,
                                        name |-> info.name])]

(***************************************************************************)
(* bind_group/mod.rs: BindGroups::new                                      *)
(***************************************************************************)
stage_flag(stage) ==
    CASE stage = "Vertex" -> "VERTEX"
      [] stage = "Fragment" -> "FRAGMENT"
      [] stage = "Compute" -> "COMPUTE"

\* a visibility that is the stage of the last entry point alone
fold_visibility_last(eps, n) ==
    IF n = 0 THEN {} ELSE {stage_flag(eps[n].stage)}

\* the first loop of new: the aggregate visibility after the first n entry points
RECURSIVE fold_visibility(_, _)
fold_visibility(eps, n) ==
    IF n = 0 THEN {}
    ELSE fold_visibility(eps, n - 1) \cup {stage_flag(eps[n].stage)}

\* the declared sizes, whatever they are
work_groups_of_declared(ep) == Some(ep.workgroup_size)

work_groups_of(ep) ==
    IF \E i \in 1..3 : ep.workgroup_size[i] = 0
    THEN None
    ELSE Some(ep.workgroup_size)

\* the first loop of new: the entry-point table after the first n entry points
RECURSIVE fold_entry_points(_, _)
fold_entry_points(eps, n) ==
    IF n = 0 THEN <<>>
    ELSE insert(fold_entry_points(eps, n - 1), eps[n].name,
                [stage |-> eps[n].stage, work_groups |-> work_groups_of(eps[n])])

EmptyTable ==
    [bindings |-> <<>>, entry_map |-> <<>>, entry_points |-> <<>>,
     push_constant_range |-> None]

\* a loop that keeps the first push-constant range it meets
RECURSIVE fold_globals_keep_first(_, _, _, _, _, _)
fold_globals_keep_first(d, types, globals, visibility, i, t) ==
    IF i > Len(globals) THEN Ok(t)
    ELSE LET r == process_global_var(d, types, globals[i], visibility)
         IN  IF ~r.ok THEN r
             ELSE IF ~is_some(r.val)
                  THEN fold_globals_keep_first(d, types, globals, visibility, i + 1, t)
             ELSE IF unwrap(r.val).tag = "PushConstant"
                  THEN fold_globals_keep_first(d, types, globals, visibility, i + 1,
                           IF is_some(t.push_constant_range) THEN t
                           ELSE [t EXCEPT !.push_constant_range = Some(unwrap(r.val).pc)])
             ELSE fold_globals_keep_first(d, types, globals, visibility, i + 1,
                                          update_entry_map(unwrap(r.val).info, t))

\* the second loop of new, from global i on; ? returns the first error
RECURSIVE fold_globals(_, _, _, _, _, _)
fold_globals(d, types, globals, visibility, i, t) ==
    IF i > Len(globals) THEN Ok(t)
    ELSE LET r == process_global_var(d, types, globals[i], visibility)
         IN  IF ~r.ok THEN r
             ELSE IF ~is_some(r.val)
                  THEN fold_globals(d, types, globals, visibility, i + 1, t)
             ELSE IF unwrap(r.val).tag = "PushConstant"
                  THEN fold_globals(d, types, globals, visibility, i + 1,
                           [t EXCEPT !.push_constant_range = Some(unwrap(r.val).pc)])
             ELSE fold_globals(d, types, globals, visibility, i + 1,
                               update_entry_map(unwrap(r.val).info, t))

\* an inference that does not look at the number of entry points
new_unchecked(m, d) ==
    LET visibility == fold_visibility(m.entry_points, Len(m.entry_points))
        entry_points == fold_entry_points(m.entry_points, Len(m.entry_points))
    IN  fold_globals(d, m.types, m.global_variables, visibility, 1,
                     [EmptyTable EXCEPT !.entry_points = entry_points])

new(m, d) ==
    IF Len(m.entry_points) = 0 THEN Err("NoEntryPoint")
    ELSE LET visibility == fold_visibility(m.entry_points, Len(m.entry_points))
             entry_points == fold_entry_points(m.entry_points, Len(m.entry_points))
         IN  fold_globals(d, m.types, m.global_variables, visibility, 1,
                          [EmptyTable EXCEPT !.entry_points = entry_points])

(***************************************************************************)
(* bind_group/mod.rs: the query surface of BindGroups                      *)
(***************************************************************************)
work_group_size(t, entry_point) ==
    IF entry_point \in DOMAIN t.entry_points
    THEN t.entry_points[entry_point].work_groups
    ELSE None

\* a lookup that clamps the index to the last element
vec_get_clamped(v, i) ==
    IF i + 1 \in 1..Len(v) THEN Some(v[i + 1])
    ELSE IF Len(v) > 0 THEN Some(v[Len(v)]) ELSE None

\* Vec::get(set)
vec_get(v, i) == IF i + 1 \in 1..Len(v) THEN Some(v[i + 1]) ELSE None

get_bind_group_layout_entries(t, set) ==
    LET e == vec_get(t.bindings, set)
    IN  IF is_some(e) THEN unwrap(e) ELSE <<>>

bind_group_entries_count(t, set) ==
    LET s == vec_get(t.bindings, set)
    IN  IF is_some(s) THEN Len(unwrap(s)) ELSE 0

\* a count that is the length of the group list
bind_group_count_len(t) == Len(t.bindings)

bind_group_count(t) ==
    IF DOMAIN t.entry_map = {} THEN 0
    ELSE LET k == CHOOSE k \in DOMAIN t.entry_map :
                     \A o \in DOMAIN t.entry_map : o.group <= k.group
         IN  k.group

\* a lookup that takes the binding number for the group
get_bind_group_layout_entry_swapped(t, set, binding) ==
    LET key == ResourceBinding(binding, set)
    IN  IF key \in DOMAIN t.entry_map
        THEN LET meta_data == t.entry_map[key]
             IN  Ok(Some(t.bindings[meta_data.set_idx + 1][meta_data.entry_idx + 1]))
        ELSE Ok(None)

\* indexing outside the Vec panics
get_bind_group_layout_entry(t, set, binding) ==
    LET key == ResourceBinding(set, binding)
    IN  IF key \in DOMAIN t.entry_map
        THEN LET meta_data == t.entry_map[key]
             IN  IF meta_data.set_idx + 1 \in 1..Len(t.bindings)
                    /\ meta_data.entry_idx + 1 \in 1..Len(t.bindings[meta_data.set_idx + 1])
                 THEN Ok(Some(t.bindings[meta_data.set_idx + 1][meta_data.entry_idx + 1]))
                 ELSE Err("panic")
        ELSE Ok(None)

push_constant_range(t) ==
    IF is_some(t.push_constant_range) THEN Some(<<unwrap(t.push_constant_range)>>) ELSE None

\* the entries of a group in list order
iter_bind_group_entries(t, set) == get_bind_group_layout_entries(t, set)

\* wgpu::BindingType::has_dynamic_offset
has_dynamic_offset(ty) == ty.kind = "Buffer" /\ ty.has_dynamic_offset

(***************************************************************************)
(* The inputs: a naga module and the directives of the hint overlay        *)
(***************************************************************************)
Global(space, access, binding, ty, name) ==
    [space |-> space, access |-> access, binding |-> binding, ty |-> ty, name |-> name]

\* address space, storage access and type of the globals that carry a location
BoundKinds ==
    {<<"Uniform", {}, "Struct">>, <<"Uniform", {}, "ArrStruct">>,
     <<"Uniform", {}, "Accel">>,
     <<"Storage", {LOAD, STORE}, "Struct">>, <<"Storage", {LOAD}, "ArrStruct">>,
     <<"Storage", {STORE}, "ImageStorage">>,
     <<"Handle", {}, "ImageSampled">>, <<"Handle", {}, "ArrImage">>,
     <<"Handle", {}, "Sampler">>, <<"Handle", {}, "ArrSampler">>}

GlobalChoices ==
    {Global(k[1], k[2], Some(loc), k[3], Some("name")) : k \in BoundKinds, loc \in Locations}
    \cup {Global("Handle", {}, Some(ResourceBinding(0, 0)), "Scalar", Some("name")),
          Global("Handle", {}, Some(ResourceBinding(0, 0)), Dangling, Some("name")),
          Global("PushConstant", {}, None, "Struct", None),
          Global("Private", {}, None, "Struct", Some("name")),
          Global("Uniform", {}, None, "Struct", Some("name"))}

SeqsUpTo(S, n) == UNION {[1..k -> S] : k \in 0..n}

EntryPoint(name, stage, workgroup_size) ==
    [name |-> name, stage |-> stage, workgroup_size |-> workgroup_size]

EntryPointLists == {<<>>, <<EntryPoint("main", "Compute", <<32, 1, 1>>)>>}

Modules ==
    {[entry_points |-> eps, global_variables |-> gs, types |-> ModuleTypes] :
        eps \in EntryPointLists, gs \in SeqsUpTo(GlobalChoices, MaxGlobals)}

DynamicOffsetHint == [dynamic_offset |-> TRUE, calculate_min_binding_size |-> FALSE]

DirectiveChoices ==
    {DirectivesDefault,
     [DirectivesDefault EXCEPT
        !.uniform_hints = [k \in {ResourceBinding(0, 0)} |-> DynamicOffsetHint]],
     [DirectivesDefault EXCEPT !.uniform_hint_base.dynamic_offset = Some(TRUE)]}

(***************************************************************************)
(* bind_group/requirements.rs: BindSlot                                    *)
(***************************************************************************)
\* a slot that is created already filled
create_bind_slot_filled(single, array, set, binding, ct) ==
    IF is_some(ct)
    THEN [variant |-> array, loc |-> <<set, binding>>, slot |-> Some("default"),
          entry_count |-> Some(unwrap(ct))]
    ELSE [variant |-> single, loc |-> <<set, binding>>, slot |-> Some("default"),
          entry_count |-> None]

\* create_bind_slot!: the array form when the entry has a count
create_bind_slot(single, array, set, binding, ct) ==
    IF is_some(ct)
    THEN [variant |-> array, loc |-> <<set, binding>>, slot |-> None,
          entry_count |-> Some(unwrap(ct))]
    ELSE [variant |-> single, loc |-> <<set, binding>>, slot |-> None,
          entry_count |-> None]

from_entry(set, entry) ==
    CASE entry.ty.kind = "Buffer" ->
            IF entry.ty.ty.buf = "Uniform"
            THEN Ok(create_bind_slot("UniformBuffer", "UniformBufferArray",
                                     set, entry.binding, entry.count))
            ELSE Ok(create_bind_slot("StorageBuffer", "StorageBufferArray",
                                     set, entry.binding, entry.count))
      [] entry.ty.kind = "Sampler" ->
            Ok(create_bind_slot("Sampler", "SamplerArray", set, entry.binding, entry.count))
      [] entry.ty.kind = "Texture" ->
            Ok(create_bind_slot("Texture", "TextureArray", set, entry.binding, entry.count))
      [] entry.ty.kind = "StorageTexture" ->
            Ok(create_bind_slot("Texture", "TextureArray", set, entry.binding, entry.count))
      [] entry.ty.kind = "AccelerationStructure" ->
            Err("panic: not yet implemented: I'm not sure if these are widely supported.")

\* the constructor of wgpu::BindingResource that try_from uses for a variant
resource_constructor(variant) ==
    CASE variant \in {"StorageBuffer", "UniformBuffer"} -> "Buffer"
      [] variant = "Texture" -> "TextureView"
      [] variant = "Sampler" -> "Sampler"
      [] variant \in {"StorageBufferArray", "UniformBufferArray"} -> "BufferArray"
      [] variant = "TextureArray" -> "TextureViewArray"
      [] variant = "SamplerArray" -> "SamplerArray"

MissingBindGroupEntry(group, binding) ==
    [error |-> "MissingBindGroupEntry", group |-> group, binding |-> binding]

\* a get_reqt! that names the location with group and binding exchanged
get_reqt_swapped(slot, binding, constructor) ==
    IF is_some(slot)
    THEN Ok([resource |-> constructor, value |-> unwrap(slot)])
    ELSE Err(MissingBindGroupEntry(binding[2], binding[1]))

\* get_reqt!: take the content of the cell
get_reqt(slot, binding, constructor) ==
    IF is_some(slot)
    THEN Ok([resource |-> constructor, value |-> unwrap(slot)])
    ELSE Err(MissingBindGroupEntry(binding[1], binding[2]))

\* a conversion that substitutes a default resource for an empty cell
try_from_default(value) ==
    IF is_some(value.slot)
    THEN Ok([resource |-> resource_constructor(value.variant), value |-> unwrap(value.slot)])
    ELSE Ok([resource |-> resource_constructor(value.variant), value |-> "default"])

\* TryFrom<BindSlot> for BindingResource
try_from(value) ==
    get_reqt(value.slot, value.loc, resource_constructor(value.variant))

(***************************************************************************)
(* The caller logic: what a callback does with the slot it is handed.      *)
(* It writes through the public RefCell with Option::replace, any number   *)
(* of times.                                                               *)
(***************************************************************************)
\* a cell that keeps its first value
replace_keep_first(cell, v) == IF is_some(cell) THEN cell ELSE Some(v)

\* Option::replace on the cell
replace(cell, v) == Some(v)

RECURSIVE put_all(_, _)
put_all(cell, values) ==
    IF values = <<>> THEN cell
    ELSE put_all(replace(cell, Head(values)), Tail(values))

BindPuts == {<<>>, <<"resource_a">>, <<"resource_a", "resource_b">>}

(***************************************************************************)
(* bind_group/requirements.rs: PassSlot                                    *)
(***************************************************************************)
\* From<&PushConstantRange> for PassSlot
from(value) ==
    [variant |-> "PushConstantRange", visibility |-> value.stages,
     range |-> value.range, loc |-> <<>>, cell |-> None]

\* a slot that carries the binding number in the place of the group
offset_for_swapped(set, binding) ==
    [variant |-> "DynamicOffset", visibility |-> {},
     range |-> [start |-> u32(0), end |-> u32(0)], loc |-> <<binding, set>>, cell |-> None]

offset_for(set, binding) ==
    [variant |-> "DynamicOffset", visibility |-> {},
     range |-> [start |-> u32(0), end |-> u32(0)], loc |-> <<set, binding>>, cell |-> None]

push_const_slice(self) ==
    IF self.variant = "PushConstantRange"
    THEN IF is_some(self.cell) THEN Some(<<self.range.start, unwrap(self.cell)>>) ELSE None
    ELSE None

offset(self) ==
    IF self.variant = "DynamicOffset" THEN self.cell ELSE None

OffsetPuts == {<<>>, <<"offset_a">>, <<"offset_a", "offset_b">>}
PushConstantPuts == {<<>>, <<"bytes_a">>, <<"bytes_a", "bytes_b">>}

(***************************************************************************)
(* lib.rs: the locals of BoundComputePipeline::create_pass, and the code   *)
(* that runs between two invocations of pass_func                          *)
(***************************************************************************)
PassLocals ==
    [pc_range_errors |-> <<>>, pc_ranges |-> <<>>, bg_and_offsets |-> <<>>,
     errors |-> <<>>, offsets |-> <<>>,
     loop |-> "ranges", range_i |-> 0, set |-> 0, ent |-> 0]

reflected_ranges(t) ==
    IF is_some(push_constant_range(t)) THEN unwrap(push_constant_range(t)) ELSE <<>>

\* runs the two loops up to the next slot handed to pass_func; slot is None
\* when both loops are over
RECURSIVE run_to_pass_func(_, _, _)
run_to_pass_func(cp, t, groups) ==
    IF cp.loop = "ranges"
    THEN IF cp.range_i < Len(reflected_ranges(t))
         THEN [cp |-> cp, slot |-> Some(from(reflected_ranges(t)[cp.range_i + 1]))]
         ELSE run_to_pass_func([cp EXCEPT !.loop = "groups"], t, groups)
    ELSE IF cp.set >= Len(groups)
         THEN [cp |-> [cp EXCEPT !.loop = "done"], slot |-> None]
         ELSE LET ents == iter_bind_group_entries(t, cp.set)
              IN  IF cp.ent < Len(ents)
                  THEN IF has_dynamic_offset(ents[cp.ent + 1].ty)
                       THEN [cp |-> cp,
                             slot |-> Some(offset_for(cp.set, ents[cp.ent + 1].binding))]
                       ELSE run_to_pass_func([cp EXCEPT !.ent = @ + 1], t, groups)
                  ELSE run_to_pass_func(
                           [cp EXCEPT !.bg_and_offsets =
                                          Append(@, [set |-> cp.set,
                                                     group |-> groups[cp.set + 1],
                                                     offsets |-> cp.offsets]),
                                      !.set = @ + 1, !.ent = 0, !.offsets = <<>>],
                           t, groups)

\* the match on the slot after pass_func returned
take_pass_slot(cp, slot) ==
    IF cp.loop = "ranges"
    THEN LET pc_out == push_const_slice(slot)
         IN  IF is_some(pc_out)
             THEN [cp EXCEPT !.pc_ranges = Append(@, unwrap(pc_out)), !.range_i = @ + 1]
             ELSE [cp EXCEPT !.pc_range_errors = Append(@, slot.visibility),
                             !.range_i = @ + 1]
    ELSE LET dyn_offset == offset(slot)
         IN  IF is_some(dyn_offset)
             THEN [cp EXCEPT !.offsets = Append(@, unwrap(dyn_offset)), !.ent = @ + 1]
             ELSE [cp EXCEPT !.errors = Append(@, slot.loc), !.ent = @ + 1]

PassConstruction(errors, pc_range_errors) ==
    [error |-> "PassConstruction", missing_offsets |-> errors,
     missing_push_constant_stages |-> pc_range_errors]

\* commands that set the bind groups before the push constants
pass_commands_groups_first(cp) ==
    <<[cmd |-> "set_pipeline"]>>
    \o [i \in 1..Len(cp.bg_and_offsets) |->
            [cmd |-> "set_bind_group", set |-> cp.bg_and_offsets[i].set,
             group |-> cp.bg_and_offsets[i].group,
             offsets |-> cp.bg_and_offsets[i].offsets]]
    \o [i \in 1..Len(cp.pc_ranges) |->
            [cmd |-> "set_push_constants", offset |-> cp.pc_ranges[i][1],
             data |-> cp.pc_ranges[i][2]]]

\* the commands recorded on the pass once both loops are over
pass_commands(cp) ==
    <<[cmd |-> "set_pipeline"]>>
    \o [i \in 1..Len(cp.pc_ranges) |->
            [cmd |-> "set_push_constants", offset |-> cp.pc_ranges[i][1],
             data |-> cp.pc_ranges[i][2]]]
    \o [i \in 1..Len(cp.bg_and_offsets) |->
            [cmd |-> "set_bind_group", set |-> cp.bg_and_offsets[i].set,
             group |-> cp.bg_and_offsets[i].group,
             offsets |-> cp.bg_and_offsets[i].offsets]]

\* a result that looks at the missing dynamic offsets only
pass_result_offsets_only(cp) ==
    IF cp.errors # <<>>
    THEN Err(PassConstruction(cp.errors, <<>>))
    ELSE Ok(pass_commands(cp))

pass_result(cp) ==
    IF cp.errors # <<>> \/ cp.pc_range_errors # <<>>
    THEN Err(PassConstruction(cp.errors, cp.pc_range_errors))
    ELSE Ok(pass_commands(cp))

(***************************************************************************)
(* State                                                                   *)
(***************************************************************************)
VARIABLES
    module,          \* the naga module handed to BindGroups::new
    directives,      \* the Directives handed to BindGroups::new
    pc,              \* position of the program
    reflection_ctx,  \* Option<BindGroups>: the table of the ComputeReflector
    outcome,         \* what the last finished call returned, or how it ended
    query,           \* the last query of the table and its answer
    caller,          \* who runs create_bind_group: "bind" or "api"
    set,             \* create_bind_group: the group under construction
    bg_ct,           \* bind: bind_group_count()
    iter,            \* create_bind_group: entries of the group consumed so far
    req,             \* create_bind_group: Option<BindSlot>, the live slot
    resource,        \* create_bind_group: the last result of try_from
    entries,         \* create_bind_group: the BindGroupEntry list collected
    bind_groups,     \* bind: the wgpu::BindGroup list collected
    device,          \* the objects created on the wgpu::Device, in order
    cp,              \* create_pass: its locals
    pass_slot,       \* create_pass: Option<PassSlot>, the live slot
    pass,            \* Option<commands recorded on the wgpu::ComputePass>
    trace            \* history: the slot events (create, hand, take) so far

inputVars == <<overflow_checks, module, directives>>
tableVars == <<reflection_ctx, query>>
bindVars == <<caller, set, bg_ct, iter, req, resource, entries, bind_groups, device>>
passVars == <<cp, pass_slot, pass>>
vars == <<overflow_checks, module, directives, pc, reflection_ctx, outcome, query, caller, set, bg_ct,
          iter, req, resource, entries, bind_groups, device, cp, pass_slot, pass, trace>>

NoQuery == [op |-> "none"]
NoOutcome == [call |-> "none", result |-> "none"]
NoResource == [ok |-> FALSE, err |-> [error |-> "none", group |-> 0, binding |-> 0]]

Event(ev, slot, puts) == [ev |-> ev, slot |-> slot, puts |-> puts]

\* the sizes of ModuleTypes are far from 2^32: no sum overflows under this
\* initial condition, whatever the build
Init ==
    /\ overflow_checks = TRUE
    /\ module \in Modules
    /\ directives \in DirectiveChoices
    /\ pc = "source"
    /\ reflection_ctx = None
    /\ outcome = NoOutcome
    /\ query = NoQuery
    /\ caller = "none"
    /\ set = 0
    /\ bg_ct = 0
    /\ iter = 0
    /\ req = None
    /\ resource = NoResource
    /\ entries = <<>>
    /\ bind_groups = <<>>
    /\ device = <<>>
    /\ cp = PassLocals
    /\ pass_slot = None
    /\ pass = None
    /\ trace = <<>>

table == unwrap(reflection_ctx)

\* ComputeReflector::new_compute from BindGroups::new on
NewCompute ==
    /\ pc = "source"
    /\ LET r == new(module, directives)
       IN  IF r.ok
           THEN /\ reflection_ctx' = Some(r.val)
                /\ outcome' = [call |-> "new", result |-> "Ok"]
                /\ pc' = "reflected"
           ELSE /\ reflection_ctx' = None
                /\ outcome' = [call |-> "new", result |-> r.err]
                /\ pc' = "failed"
    /\ UNCHANGED <<inputVars, query, bindVars, passVars, trace>>

\* the table queries of the reflector, for any group
QueryGroup ==
    /\ pc = "reflected"
    /\ query = NoQuery
    /\ \E s \in 0..(MaxGroup + 1) :
          query' = [op |-> "entries", set |-> s,
                    entries |-> get_bind_group_layout_entries(table, s),
                    count |-> bind_group_entries_count(table, s),
                    bind_group_count |-> bind_group_count(table)]
    /\ pc' = "queried"
    /\ UNCHANGED <<inputVars, reflection_ctx, outcome, bindVars, passVars, trace>>

\* create_bind_group up to its iterator: the layout of the group is created
begin_group(s) ==
    /\ set' = s
    /\ iter' = 0
    /\ entries' = <<>>
    /\ device' = Append(device, [call |-> "create_bind_group_layout", set |-> s,
                                 entries |-> get_bind_group_layout_entries(table, s)])
    /\ pc' = "next_entry"

\* ComputeReflector::create_bind_group called on the reflector for any group
CreateBindGroup ==
    /\ pc = "reflected"
    /\ \E s \in 0..(MaxGroup + 1) : begin_group(s)
    /\ caller' = "api"
    /\ UNCHANGED <<inputVars, tableVars, outcome, bg_ct, req, resource, bind_groups,
                   passVars, trace>>

\* UnboundComputePipeline::bind up to the first create_bind_group
Bind ==
    /\ pc = "reflected"
    /\ bg_ct' = bind_group_count(table)
    /\ begin_group(0)
    /\ caller' = "bind"
    /\ UNCHANGED <<inputVars, tableVars, outcome, req, resource, bind_groups,
                   passVars, trace>>

\* the closure of create_bind_group: BindSlot::from_entry
FromEntry ==
    /\ pc = "next_entry"
    /\ iter < Len(get_bind_group_layout_entries(table, set))
    /\ LET r == from_entry(set, get_bind_group_layout_entries(table, set)[iter + 1])
       IN  IF r.ok
           THEN /\ req' = Some(r.val)
                /\ trace' = Append(trace, Event("create", r.val, <<>>))
                /\ pc' = "func"
                /\ UNCHANGED outcome
           ELSE /\ req' = None
                /\ outcome' = [call |-> IF caller = "bind" THEN "bind"
                                        ELSE "create_bind_group",
                               result |-> r.err]
                /\ pc' = "panicked"
                /\ UNCHANGED trace
    /\ UNCHANGED <<inputVars, tableVars, caller, set, bg_ct, iter, resource, entries,
                   bind_groups, device, passVars>>

\* the closure of create_bind_group: func(&req), the caller logic
Func ==
    /\ pc = "func"
    /\ \E puts \in BindPuts :
          LET filled == [unwrap(req) EXCEPT !.slot = put_all(@, puts)]
          IN  /\ req' = Some(filled)
              /\ trace' = Append(trace, Event("hand", filled, puts))
    /\ pc' = "try_from"
    /\ UNCHANGED <<inputVars, tableVars, outcome, caller, set, bg_ct, iter, resource,
                   entries, bind_groups, device, passVars>>

\* the closure of create_bind_group: BindingResource::try_from(req).ok()?, and,
\* on None, the return of create_bind_group and of its caller
TryFrom ==
    /\ pc = "try_from"
    /\ LET r == try_from(unwrap(req))
           entry == get_bind_group_layout_entries(table, set)[iter + 1]
       IN  /\ resource' = r
           /\ trace' = Append(trace, Event("take", unwrap(req), <<>>))
           /\ IF r.ok
              THEN /\ entries' = Append(entries, [binding |-> entry.binding,
                                                  resource |-> r.val])
                   /\ iter' = iter + 1
                   /\ pc' = "next_entry"
                   /\ UNCHANGED outcome
              ELSE /\ UNCHANGED <<entries, iter>>
                   /\ IF caller = "bind"
                      THEN /\ outcome' = [call |-> "bind",
                                          result |-> "panic: i'm going to deal with this later"]
                           /\ pc' = "panicked"
                      ELSE /\ outcome' = [call |-> "create_bind_group", result |-> "None"]
                           /\ pc' = "returned"
    /\ req' = None
    /\ UNCHANGED <<inputVars, tableVars, caller, set, bg_ct, bind_groups, device, passVars>>

\* create_bind_group after its iterator: device.create_bind_group, and in bind
\* the next group or the BoundComputePipeline
Collect ==
    /\ pc = "next_entry"
    /\ iter = Len(get_bind_group_layout_entries(table, set))
    /\ LET group == [set |-> set, entries |-> entries]
           created == Append(device, [call |-> "create_bind_group", set |-> set,
                                      entries |-> entries])
       IN  IF caller = "bind"
           THEN /\ bind_groups' = Append(bind_groups, group)
                /\ IF set < bg_ct
                   THEN /\ set' = set + 1
                        /\ iter' = 0
                        /\ entries' = <<>>
                        /\ device' = Append(created,
                               [call |-> "create_bind_group_layout", set |-> set + 1,
                                entries |-> get_bind_group_layout_entries(table, set + 1)])
                        /\ pc' = "next_entry"
                        /\ UNCHANGED outcome
                   ELSE /\ device' = created
                        /\ outcome' = [call |-> "bind", result |-> "Ok"]
                        /\ pc' = "bound"
                        /\ UNCHANGED <<set, iter, entries>>
           ELSE /\ device' = created
                /\ outcome' = [call |-> "create_bind_group", result |-> "Some"]
                /\ pc' = "returned"
                /\ UNCHANGED <<set, iter, entries, bind_groups>>
    /\ UNCHANGED <<inputVars, tableVars, caller, bg_ct, req, resource, passVars, trace>>

\* create_pass from a point between two callbacks to the next callback or its return
continue_pass(locals, recorded) ==
    LET r == run_to_pass_func(locals, table, bind_groups)
    IN  /\ cp' = r.cp
        /\ pass_slot' = r.slot
        /\ IF is_some(r.slot)
           THEN /\ trace' = Append(recorded, Event("create", unwrap(r.slot), <<>>))
                /\ pc' = "pass_func"
                /\ pass' = Some(<<>>)
                /\ UNCHANGED outcome
           ELSE /\ trace' = recorded
                /\ IF pass_result(r.cp).ok
                   THEN /\ pass' = Some(pass_result(r.cp).val)
                        /\ outcome' = [call |-> "create_pass", result |-> "Ok"]
                   ELSE /\ pass' = Some(<<>>)
                        /\ outcome' = [call |-> "create_pass", result |-> "Err",
                                       error |-> pass_result(r.cp).err]
                /\ pc' = "pass_returned"

\* BoundComputePipeline::create_pass up to the first pass_func
CreatePass ==
    /\ pc = "bound"
    /\ continue_pass(PassLocals, trace)
    /\ UNCHANGED <<inputVars, tableVars, bindVars>>

\* pass_func(&slot), the caller logic
PassFunc ==
    /\ pc = "pass_func"
    /\ \E puts \in IF unwrap(pass_slot).variant = "DynamicOffset"
                   THEN OffsetPuts ELSE PushConstantPuts :
          LET filled == [unwrap(pass_slot) EXCEPT !.cell = put_all(@, puts)]
          IN  /\ pass_slot' = Some(filled)
              /\ trace' = Append(trace, Event("hand", filled, puts))
    /\ pc' = "pass_take"
    /\ UNCHANGED <<inputVars, tableVars, outcome, bindVars, cp, pass>>

\* the match on the slot, then on to the next pass_func or to the return
PassTake ==
    /\ pc = "pass_take"
    /\ continue_pass(take_pass_slot(cp, unwrap(pass_slot)),
                     Append(trace, Event("take", unwrap(pass_slot), <<>>)))
    /\ UNCHANGED <<inputVars, tableVars, bindVars>>

Next ==
    \/ NewCompute
    \/ QueryGroup
    \/ CreateBindGroup
    \/ Bind
    \/ FromEntry
    \/ Func
    \/ TryFrom
    \/ Collect
    \/ CreatePass
    \/ PassFunc
    \/ PassTake

Spec == Init /\ [][Next]_vars

(***************************************************************************)
(* Vocabulary of the properties                                            *)
(***************************************************************************)
PassVariants == {"DynamicOffset", "PushConstantRange"}
IsBindEvent(e) == e.slot.variant \notin PassVariants
IsPassEvent(e) == e.slot.variant \in PassVariants
IsHand(e) == e.ev = "hand"

\* the events of the BindSlots and of the PassSlots, in order
BindTrace == SelectSeq(trace, IsBindEvent)
PassTrace == SelectSeq(trace, IsPassEvent)

\* the content of the cell of a slot
content(slot) == IF slot.variant \in PassVariants THEN slot.cell ELSE slot.slot

Last(s) == s[Len(s)]

\* the globals of the module that declare a binding location in a bound space
BoundGlobals ==
    {i \in 1..Len(module.global_variables) :
        /\ module.global_variables[i].space \in {"Uniform", "Storage", "Handle"}
        /\ is_some(module.global_variables[i].binding)}

DeclaredGroups ==
    {unwrap(module.global_variables[i].binding).group : i \in BoundGlobals}

HighestDeclaredGroup ==
    CHOOSE g \in DeclaredGroups : \A o \in DeclaredGroups : o <= g

Reflected == pc # "source" /\ is_some(reflection_ctx)

\* the locations of the entries of group g, in the order of the entry list
GroupLocations(g) ==
    IF g + 1 \in 1..Len(table.bindings)
    THEN [i \in 1..Len(table.bindings[g + 1]) |-> <<g, table.bindings[g + 1][i].binding>>]
    ELSE <<>>

RECURSIVE LocationsUpTo(_)
LocationsUpTo(g) == IF g < 0 THEN <<>> ELSE LocationsUpTo(g - 1) \o GroupLocations(g)

\* the entries create_bind_group has been called for so far, in visiting order
VisitOrder == IF caller = "bind" THEN LocationsUpTo(set) ELSE GroupLocations(set)

IsUnfilledOffset(e) == IsHand(e) /\ e.slot.variant = "DynamicOffset" /\ e.puts = <<>>
IsUnfilledRange(e) == IsHand(e) /\ e.slot.variant = "PushConstantRange" /\ e.puts = <<>>
IsOffsetHand(e) == IsHand(e) /\ e.slot.variant = "DynamicOffset"
IsRangeHand(e) == IsHand(e) /\ e.slot.variant = "PushConstantRange"

UnfilledOffsets ==
    LET s == SelectSeq(trace, IsUnfilledOffset) IN [i \in 1..Len(s) |-> s[i].slot.loc]
UnfilledRanges ==
    LET s == SelectSeq(trace, IsUnfilledRange) IN [i \in 1..Len(s) |-> s[i].slot.visibility]
HandedOffsets ==
    LET s == SelectSeq(trace, IsOffsetHand) IN [i \in 1..Len(s) |-> s[i].slot.loc]

IsDynamicEntry(e) == e.ty.kind = "Buffer" /\ e.ty.has_dynamic_offset

\* the locations of the dynamic-offset entries of the bound groups, in order
RECURSIVE DynamicLocationsUpTo(_)
DynamicLocationsUpTo(g) ==
    IF g < 0 THEN <<>>
    ELSE DynamicLocationsUpTo(g - 1)
         \o (LET s == SelectSeq(table.bindings[g + 1], IsDynamicEntry)
             IN  [i \in 1..Len(s) |-> <<g, s[i].binding>>])

C2_PassCollectsEveryMissingSlot ==
    pc = "pass_returned"
    => /\ HandedOffsets = DynamicLocationsUpTo(Len(table.bindings) - 1)
       /\ Len(SelectSeq(trace, IsRangeHand))
            = (IF is_some(table.push_constant_range) THEN 1 ELSE 0)
       /\ (UnfilledOffsets # <<>> \/ UnfilledRanges # <<>>)
          => outcome = [call |-> "create_pass", result |-> "Err",
                        error |-> PassConstruction(UnfilledOffsets, UnfilledRanges)]

C2_Witness ==
    /\ pc = "pass_returned"
    /\ outcome.result = "Err"
    /\ Len(outcome.error.missing_offsets) = 1
    /\ Len(outcome.error.missing_push_constant_stages) = 1
    /\ outcome.error.missing_push_constant_stages[1] = {"COMPUTE"}

C2_WitnessTwoOffsets ==
    /\ pc = "pass_returned"
    /\ outcome.result = "Err"
    /\ outcome.error.missing_offsets = <<<<0, 1>>, <<1, 0>>>>

(***************************************************************************)
(* C3: bind-group construction is fail-fast: after the caller logic left   *)
(* the slot of an entry unfilled, the slot is taken and nothing else       *)
(* happens: no later entry is handed to the caller logic and no bind group *)
(* is created for the group.                                               *)
(***************************************************************************)
C3_FailFastWithinGroup ==
    \A k \in 1..Len(trace) :
        (IsBindEvent(trace[k]) /\ IsHand(trace[k]) /\ trace[k].puts = <<>>)
        => /\ k >= Len(trace) - 1
           /\ k = Len(trace) - 1 => /\ Last(trace).ev = "take"
                                    /\ pc \in {"returned", "panicked"}
           /\ \A j \in 1..Len(device) :
                 device[j].call = "create_bind_group" => device[j].set # trace[k].slot.loc[1]
           /\ iter < Len(table.bindings[set + 1])
           /\ trace[k].slot.loc = <<set, table.bindings[set + 1][iter + 1].binding>>

C3_Witness ==
    /\ pc \in {"returned", "panicked"}
    /\ Len(trace) = 3
    /\ trace[2].puts = <<>>
    /\ set = 0
    /\ iter = 0
    /\ Len(table.bindings[1]) = 2

(***************************************************************************)
(* C4: the events of the BindSlots are a sequence of rounds create, hand,  *)
(* take, one round per entry in visiting order: the slot is created empty  *)
(* at the location of its entry, the same slot is handed once and taken    *)
(* once, and the next slot is created only after the take.                 *)
(***************************************************************************)
Round == <<"create", "hand", "take">>

C4_SlotLifecycleInEntryOrder ==
    /\ \A k \in 1..Len(BindTrace) :
          /\ BindTrace[k].ev = Round[((k - 1) % 3) + 1]
          /\ BindTrace[k].ev = "create"
             => /\ BindTrace[k].slot.slot = None
                /\ ((k - 1) \div 3) + 1 \in 1..Len(VisitOrder)
                /\ BindTrace[k].slot.loc = VisitOrder[((k - 1) \div 3) + 1]
          /\ BindTrace[k].ev # "create"
             => /\ BindTrace[k].slot.loc = BindTrace[k - 1].slot.loc
                /\ BindTrace[k].slot.variant = BindTrace[k - 1].slot.variant
    /\ pc \notin {"func", "try_from"} => Len(BindTrace) % 3 = 0
    /\ pc \in {"bound", "pass_func", "pass_take", "pass_returned"}
       => Len(BindTrace) = 3 * Len(VisitOrder)
    /\ (pc = "returned" /\ outcome.result = "Some") => Len(BindTrace) = 3 * Len(VisitOrder)

C4_Witness ==
    /\ pc = "bound"
    /\ Len(BindTrace) = 6
    /\ BindTrace[1].slot.loc = <<0, 1>>
    /\ BindTrace[4].slot.loc = <<0, 0>>

(***************************************************************************)
(* C5 as claimed: a second fill of a slot does not replace the first       *)
(* value, so the value taken from a slot is the first value the caller     *)
(* logic put in it.                                                        *)
(***************************************************************************)
C5_TakenIsFirstPut ==
    \A k \in 2..Len(trace) :
        (trace[k].ev = "take" /\ trace[k - 1].puts # <<>>)
        => content(trace[k].slot) = Some(trace[k - 1].puts[1])

(***************************************************************************)
(* C5 amended: no check guards the cell of a slot: every fill replaces the *)
(* content, so the value taken from a BindSlot or a PassSlot is the last   *)
(* value the caller logic put in it (nothing when it put nothing); the     *)
(* take consumes the slot, which is therefore taken at most once.          *)
(***************************************************************************)
IsFilledOffset(e) == IsHand(e) /\ e.slot.variant = "DynamicOffset" /\ e.puts # <<>>
IsFilledRange(e) == IsHand(e) /\ e.slot.variant = "PushConstantRange" /\ e.puts # <<>>

RECURSIVE OffsetsUpTo(_)
OffsetsUpTo(n) ==
    IF n = 0 THEN <<>> ELSE OffsetsUpTo(n - 1) \o cp.bg_and_offsets[n].offsets

C5_TakenIsLastPut ==
    /\ \A k \in 2..Len(trace) :
          trace[k].ev = "take"
          => content(trace[k].slot)
               = (IF trace[k - 1].puts = <<>> THEN None ELSE Some(Last(trace[k - 1].puts)))
    /\ (Len(trace) >= 2 /\ Last(trace).ev = "take" /\ IsBindEvent(Last(trace)) /\ resource.ok)
       => resource.val.value = Last(trace[Len(trace) - 1].puts)
    /\ pc = "pass_returned"
       => /\ LET s == SelectSeq(trace, IsFilledRange)
             IN  cp.pc_ranges = [i \in 1..Len(s) |-> <<u32(0), Last(s[i].puts)>>]
          /\ LET s == SelectSeq(trace, IsFilledOffset)
             IN  OffsetsUpTo(Len(cp.bg_and_offsets)) = [i \in 1..Len(s) |-> Last(s[i].puts)]
    /\ pc \notin {"func", "try_from"} => req = None
    /\ pc # "pass_func" /\ pc # "pass_take" => pass_slot = None

C5_Witness ==
    /\ pc = "pass_returned"
    /\ outcome.result = "Ok"
    /\ Len(bind_groups) = 1
    /\ Len(bind_groups[1].entries) = 1
    /\ bind_groups[1].entries[1].resource.value = "resource_b"
    /\ is_some(pass)
    /\ \E i \in 1..Len(unwrap(pass)) :
          /\ unwrap(pass)[i].cmd = "set_push_constants"
          /\ unwrap(pass)[i].data = "bytes_b"
    /\ \E i \in 1..Len(unwrap(pass)) :
          /\ unwrap(pass)[i].cmd = "set_bind_group"
          /\ unwrap(pass)[i].offsets = <<"offset_b">>

(***************************************************************************)
(* C6 as claimed: when the caller logic leaves a required bind slot        *)
(* unfilled, bind ends by returning an error value: it does not panic.     *)
(***************************************************************************)
C6_BindReturnsErrorOnMissingSlot ==
    (/\ caller = "bind"
     /\ pc \notin {"func", "try_from", "next_entry"}
     /\ ~resource.ok
     /\ resource.err.error = "MissingBindGroupEntry")
    => /\ pc # "panicked"
       /\ outcome.call = "bind"
       /\ outcome.result = "Err"

(***************************************************************************)
(* C7: after inference every location of the lookup map records a group    *)
(* index and an entry index that are in range, the entry stored there has  *)
(* the binding number of the location and lies in the group of the         *)
(* location, and the group list holds one list per group index from 0 to   *)
(* the highest declared group.                                             *)
(***************************************************************************)
C7_TableWellFormed ==
    Reflected
    => /\ \A loc \in DOMAIN table.entry_map :
             LET meta_data == table.entry_map[loc]
             IN  /\ meta_data.set_idx + 1 \in 1..Len(table.bindings)
                 /\ meta_data.entry_idx + 1 \in 1..Len(table.bindings[meta_data.set_idx + 1])
                 /\ meta_data.set_idx = loc.group
                 /\ table.bindings[meta_data.set_idx + 1][meta_data.entry_idx + 1].binding
                      = loc.binding
       /\ Len(table.bindings) = (IF DeclaredGroups = {} THEN 0 ELSE HighestDeclaredGroup + 1)
       /\ DOMAIN table.entry_map
            = {unwrap(module.global_variables[i].binding) : i \in BoundGlobals}

C7_Witness ==
    /\ Reflected
    /\ Len(table.bindings) = 2
    /\ table.bindings[1] = <<>>
    /\ Len(table.bindings[2]) = 2
    /\ Cardinality(DOMAIN table.entry_map) = 2

(***************************************************************************)
(* C8: the entries of a group above the highest declared group (any group  *)
(* when the module has no binding) are the empty sequence, and the entry   *)
(* count of such a group is 0.                                             *)
(***************************************************************************)
C8_GroupAboveHighestIsEmpty ==
    (query.op = "entries" /\ (DeclaredGroups = {} \/ query.set > HighestDeclaredGroup))
    => /\ query.entries = <<>>
       /\ query.count = 0

C8_Witness ==
    /\ query.op = "entries"
    /\ DeclaredGroups = {0}
    /\ query.set = 1
    /\ Len(table.bindings[1]) = 2
    /\ query.entries = <<>>

C8_WitnessNoBinding ==
    /\ query.op = "entries"
    /\ DeclaredGroups = {}
    /\ query.set = 0
    /\ query.count = 0

(***************************************************************************)
(* C9: bind_group_count() is the highest group index among the bindings    *)
(* that inference registered, and 0 when it registered none.               *)
(***************************************************************************)
C9_BindGroupCountIsHighestGroup ==
    LET expected == IF DeclaredGroups = {} THEN 0 ELSE HighestDeclaredGroup
    IN  /\ query.op = "entries" => query.bind_group_count = expected
        /\ caller = "bind" => bg_ct = expected

C9_Witness ==
    /\ query.op = "entries"
    /\ DeclaredGroups = {0, 1}
    /\ query.bind_group_count = 1

(***************************************************************************)
(* C10: inference on a module without entry point fails with NoEntryPoint, *)
(* whatever globals the module declares, and produces no table.            *)
(***************************************************************************)
C10_NoEntryPoint ==
    (pc # "source" /\ Len(module.entry_points) = 0)
    => /\ pc = "failed"
       /\ outcome = [call |-> "new", result |-> "NoEntryPoint"]
       /\ reflection_ctx = None

C10_Witness ==
    /\ pc = "failed"
    /\ Len(module.entry_points) = 0
    /\ Len(module.global_variables) = 2
    /\ module.global_variables[1].ty = Dangling
    /\ module.global_variables[2].space = "Uniform"
    /\ outcome.result = "NoEntryPoint"

(***************************************************************************)
(* Inference alone, over a wider set of inputs: every storage access set,  *)
(* every hint and base default, several entry points, push-constant types  *)
(* of every size class up to the largest u32.                              *)
(***************************************************************************)
\* the byte sizes TypeInner::size can report for the push-constant struct
TypeSizes ==
    {u32(n) : n \in 0..9}
    \cup {[hi |-> 0, lo |-> LIMB - k] : k \in 1..4}
    \cup {[hi |-> 1, lo |-> 0]}
    \cup {[hi |-> LIMB - 1, lo |-> LIMB - k] : k \in 1..9}

StorageImage(access) ==
    [inner |-> "Image", dim |-> "ImageDimension::D2", size |-> u32(0),
     class |-> [class |-> "Storage", format |-> "StorageFormat::R32Float",
                access |-> access]]

BindingArrayOf(base, array_size) ==
    [inner |-> "BindingArray", base |-> base, size |-> u32(0), array_size |-> array_size]

InferTypeHandles ==
    TypeHandles
    \cup {"ImageStorageNone", "ImageStorageLoad", "ImageStorageBoth", "ArrImageStorage",
          "ArrSamplerCmp", "ArrAccel", "ArrArrImage"}

\* the arena of ModuleTypes with a struct of the given size and more types
InferTypes(size) ==
    [h \in InferTypeHandles |->
        CASE h = "Struct" -> [inner |-> "Struct", size |-> size]
          [] h = "ImageStorageNone" -> StorageImage({})
          [] h = "ImageStorageLoad" -> StorageImage({LOAD})
          [] h = "ImageStorageBoth" -> StorageImage({LOAD, STORE})
          [] h = "ArrImageStorage" ->
                BindingArrayOf("ImageStorageBoth", [kind |-> "Constant", n |-> 2])
          [] h = "ArrSamplerCmp" ->
                BindingArrayOf("SamplerCmp", [kind |-> "Constant", n |-> 1])
          [] h = "ArrAccel" ->
                BindingArrayOf("Accel", [kind |-> "Constant", n |-> 2])
          [] h = "ArrArrImage" ->
                BindingArrayOf("ArrImage", [kind |-> "Dynamic", n |-> 0])
          [] OTHER -> ModuleTypes[h]]

Stages == {"Vertex", "Fragment", "Compute"}

InferEntryPointLists ==
    {<<>>}
    \cup {<<EntryPoint(st, st, IF st = "Compute" THEN <<8, 8, 1>> ELSE <<0, 0, 0>>)>> :
            st \in Stages}
    \cup {<<EntryPoint(a, a, <<0, 0, 0>>), EntryPoint(b, b, <<0, 0, 0>>)>> :
            a \in {"Vertex"}, b \in {"Fragment", "Compute"}}

\* globals of the push-constant family
PushConstantGlobals ==
    {Global("PushConstant", {}, None, "Struct", None),
     Global("PushConstant", {}, None, "Scalar", Some("name")),
     Global("PushConstant", {}, None, Dangling, None),
     Global("Uniform", {}, Some(ResourceBinding(0, 0)), "Struct", Some("name")),
     Global("Private", {}, None, "Struct", Some("name"))}

PushConstantModules ==
    {[entry_points |-> eps, global_variables |-> gs, types |-> InferTypes(size)] :
        eps \in InferEntryPointLists,
        gs \in SeqsUpTo(PushConstantGlobals, MaxGlobals),
        size \in TypeSizes}

\* address space, storage access and type of the globals of the classifier family
BufferKinds ==
    {<<"Uniform", {}, ty>> : ty \in {"Struct", "ArrStruct", "Accel", "ArrAccel"}}
    \cup {<<"Storage", access, ty>> :
            access \in StorageAccessSets,
            ty \in {"Struct", "ArrStruct", "ImageStorage", "ArrImageStorage"}}

HandleKinds ==
    {<<"Handle", {}, ty>> :
            ty \in {"Sampler", "SamplerCmp", "ArrSampler", "ArrSamplerCmp",
                    "ImageSampled", "ImageDepth", "ArrImage", "ArrArrImage",
                    "ImageStorage", "ImageStorageNone", "ImageStorageLoad",
                    "ImageStorageBoth", "ArrImageStorage", "Scalar"}}

ClassifiedModules(kinds) ==
    {[entry_points |-> <<EntryPoint("main", "Compute", <<8, 8, 1>>)>>,
      global_variables |-> <<Global(k[1], k[2], Some(loc), k[3], Some("name"))>>,
      types |-> InferTypes(u32(8))] :
        k \in kinds, loc \in Locations}

\* the location that carries the override of the directives
HintedLocation == ResourceBinding(0, 0)

UniformHints == [dynamic_offset : BOOLEAN, calculate_min_binding_size : BOOLEAN]

UniformHintPatches ==
    [dynamic_offset : {None, Some(FALSE), Some(TRUE)},
     calculate_min_binding_size : {None, Some(FALSE), Some(TRUE)}]

FilterModes == {"Nearest", "Linear"}
AddressModes == {"ClampToEdge", "Repeat"}
CompareFunctions == {None, Some("Less")}

SamplerHints == [filter : FilterModes, wrap : AddressModes, comparison : CompareFunctions]

SamplerHintPatches ==
    [filter : {None} \cup {Some(f) : f \in FilterModes},
     wrap : {None, Some("Repeat")},
     comparison : {None} \cup {Some(c) : c \in CompareFunctions}]

\* no override or one override at HintedLocation
HintMaps(hints) == {<<>>} \cup {[k \in {HintedLocation} |-> h] : h \in hints}

UniformDirectives ==
    {[DirectivesDefault EXCEPT !.uniform_hint_base = base, !.uniform_hints = map] :
        base \in UniformHintPatches, map \in HintMaps(UniformHints)}

SamplerDirectives ==
    {[DirectivesDefault EXCEPT !.sampler_hint_base = base, !.sampler_hint = map] :
        base \in SamplerHintPatches, map \in HintMaps(SamplerHints)}

InferInit ==
    /\ overflow_checks \in BOOLEAN
    /\ \/ module \in PushConstantModules /\ directives = DirectivesDefault
       \/ module \in ClassifiedModules(BufferKinds) /\ directives \in UniformDirectives
       \/ module \in ClassifiedModules(HandleKinds) /\ directives \in SamplerDirectives
    /\ pc = "source"
    /\ reflection_ctx = None
    /\ outcome = NoOutcome
    /\ query = NoQuery
    /\ caller = "none"
    /\ set = 0
    /\ bg_ct = 0
    /\ iter = 0
    /\ req = None
    /\ resource = NoResource
    /\ entries = <<>>
    /\ bind_groups = <<>>
    /\ device = <<>>
    /\ cp = PassLocals
    /\ pass_slot = None
    /\ pass = None
    /\ trace = <<>>

\* Directives::get_uniform_hint and Directives::get_sampler_hint for a location
GetHint ==
    /\ pc \in {"reflected", "failed"}
    /\ query = NoQuery
    /\ \E binding \in Locations :
          query' = [op |-> "hints", binding |-> binding,
                    uniform_hint |-> get_uniform_hint(directives, binding),
                    sampler_hint |-> get_sampler_hint(directives, binding)]
    /\ UNCHANGED <<inputVars, pc, reflection_ctx, outcome, bindVars, passVars, trace>>

InferNext == NewCompute \/ GetHint

InferSpec == InferInit /\ [][InferNext]_vars

(***************************************************************************)
(* Vocabulary of the push-constant properties                              *)
(***************************************************************************)
PushConstantIndices ==
    {i \in 1..Len(module.global_variables) :
        module.global_variables[i].space = "PushConstant"}

LastPushConstant ==
    CHOOSE i \in PushConstantIndices : \A o \in PushConstantIndices : o <= i

\* every global of the module can be classified: inference has no error to return
EveryGlobalResolves ==
    \A i \in 1..Len(module.global_variables) :
        (module.global_variables[i].space = "PushConstant"
         \/ is_some(module.global_variables[i].binding))
        => module.global_variables[i].ty \in DOMAIN module.types

\* the size TypeInner::size reports for the type of global i
DeclaredSize(i) == module.types[module.global_variables[i].ty].size

\* end <= size + 3, the sum taken without width
WithinThree(size, end) ==
    LET sum == u32_add(size, 3)
    IN  sum.carry = 1 \/ u32_le(end, [hi |-> sum.hi, lo |-> sum.lo])

AggregateVisibility == {stage_flag(module.entry_points[i].stage) : i \in 1..Len(module.entry_points)}

(***************************************************************************)
(* C11 as claimed: for every size of the declared push-constant type, as a *)
(* 32-bit unsigned byte count, inference records a push-constant range     *)
(* whose upper bound is a multiple of 4, is not less than the declared     *)
(* size and exceeds it by at most 3.                                       *)
(***************************************************************************)
C11_RangeEndRoundsUp ==
    (/\ pc # "source"
     /\ Len(module.entry_points) > 0
     /\ PushConstantIndices # {}
     /\ EveryGlobalResolves)
    => /\ Reflected
       /\ is_some(table.push_constant_range)
       /\ LET end == unwrap(table.push_constant_range).range.end
              size == DeclaredSize(LastPushConstant)
          IN  /\ u32_rem4(end) = 0
              /\ u32_le(size, end)
              /\ WithinThree(size, end)

(***************************************************************************)
(* C12: the table has a push-constant range exactly when the module        *)
(* declares a global in the PushConstant address space; the range starts   *)
(* at byte 0 and its visibility is the union of the stage flags of all the *)
(* entry points of the module.                                             *)
(***************************************************************************)
C12_PushConstantRangePresence ==
    Reflected
    => /\ is_some(table.push_constant_range) <=> PushConstantIndices # {}
       /\ is_some(push_constant_range(table)) <=> PushConstantIndices # {}
       /\ is_some(table.push_constant_range)
          => /\ unwrap(table.push_constant_range).range.start = u32(0)
             /\ unwrap(table.push_constant_range).stages = AggregateVisibility

C12_Witness ==
    /\ Reflected
    /\ Len(module.entry_points) = 2
    /\ PushConstantIndices = {2}
    /\ module.global_variables[1].space = "Uniform"
    /\ is_some(table.push_constant_range)
    /\ unwrap(table.push_constant_range).stages = {"VERTEX", "FRAGMENT"}
    /\ unwrap(table.push_constant_range).range = [start |-> u32(0), end |-> u32(8)]

C12_WitnessNoPushConstant ==
    /\ Reflected
    /\ Len(module.global_variables) = 2
    /\ PushConstantIndices = {}
    /\ table.push_constant_range = None

(***************************************************************************)
(* C13: one push-constant range at most is tracked: when the module        *)
(* declares two or more push-constant globals the range of the table is    *)
(* the one of the last declaration, and the table is the table of the      *)
(* module without the earlier declarations.                                *)
(***************************************************************************)
\* the globals of the module without the push-constant globals before the last
RECURSIVE WithoutEarlierPushConstants(_)
WithoutEarlierPushConstants(n) ==
    IF n = 0 THEN <<>>
    ELSE IF n \in PushConstantIndices /\ n # LastPushConstant
         THEN WithoutEarlierPushConstants(n - 1)
         ELSE Append(WithoutEarlierPushConstants(n - 1), module.global_variables[n])

C13_LastPushConstantWins ==
    (Reflected /\ Cardinality(PushConstantIndices) >= 2)
    => /\ is_some(push_constant_range(table))
       /\ Len(unwrap(push_constant_range(table))) = 1
       /\ LET last == module.global_variables[LastPushConstant]
              only == new([module EXCEPT !.global_variables = <<last>>], directives)
          IN  table.push_constant_range = only.val.push_constant_range
       /\ Ok(table)
            = new([module EXCEPT !.global_variables =
                       WithoutEarlierPushConstants(Len(module.global_variables))],
                  directives)

C13_Witness ==
    /\ Reflected
    /\ PushConstantIndices = {1, 2}
    /\ module.global_variables[1].ty = "Scalar"
    /\ module.global_variables[2].ty = "Struct"
    /\ DeclaredSize(2) = u32(9)
    /\ unwrap(table.push_constant_range).range.end = u32(12)

(***************************************************************************)
(* Vocabulary of the classification properties                             *)
(***************************************************************************)
\* the type under the binding-array wrappers of a type of the arena
RECURSIVE BaseType(_, _)
BaseType(types, ty) ==
    IF ty \in DOMAIN types /\ types[ty].inner = "BindingArray"
    THEN BaseType(types, types[ty].base)
    ELSE ty

\* global i, and whether it is the only global at its location
GlobalAt(i) == module.global_variables[i]
LocationOf(i) == unwrap(GlobalAt(i).binding)

\* the entry the table holds at the location of global i
EntryOf(i) ==
    unwrap(get_bind_group_layout_entry(table, LocationOf(i).group, LocationOf(i).binding).val)

\* the inner type of the base type of global i
BaseInner(i) == module.types[BaseType(module.types, GlobalAt(i).ty)]

StorageBufferGlobals ==
    {i \in BoundGlobals :
        /\ GlobalAt(i).space = "Storage"
        /\ BaseType(module.types, GlobalAt(i).ty) \in DOMAIN module.types
        /\ BaseInner(i).inner # "Image"}

(***************************************************************************)
(* C14: the entry of a global of the Storage address space that is not an  *)
(* image is a storage buffer whose read_only is true exactly when the      *)
(* declared access has the read bit and not the write bit.                 *)
(***************************************************************************)
C14_StorageBufferReadOnly ==
    Reflected
    => \A i \in StorageBufferGlobals :
          /\ EntryOf(i).ty.kind = "Buffer"
          /\ EntryOf(i).ty.ty.buf = "Storage"
          /\ EntryOf(i).ty.ty.read_only
               <=> (LOAD \in GlobalAt(i).access /\ STORE \notin GlobalAt(i).access)

C14_Witness ==
    /\ Reflected
    /\ StorageBufferGlobals = {1}
    /\ GlobalAt(1).access = {LOAD}
    /\ GlobalAt(1).ty = "ArrStruct"
    /\ EntryOf(1).ty.ty = [buf |-> "Storage", read_only |-> TRUE]

C14_WitnessNoAccess ==
    /\ Reflected
    /\ StorageBufferGlobals = {1}
    /\ GlobalAt(1).access = {}
    /\ EntryOf(1).ty.ty = [buf |-> "Storage", read_only |-> FALSE]

(***************************************************************************)
(* C15: the access of the StorageTexture entry of a storage image follows  *)
(* the declared read and write bits: both give ReadWrite, write alone      *)
(* gives WriteOnly, read alone and neither give ReadOnly.  The bits are    *)
(* the access of the address space for a global of the Storage space and   *)
(* the access of the image class for a global of the Handle space.         *)
(***************************************************************************)
StorageImageGlobals ==
    {i \in BoundGlobals :
        /\ GlobalAt(i).space \in {"Storage", "Handle"}
        /\ BaseType(module.types, GlobalAt(i).ty) \in DOMAIN module.types
        /\ BaseInner(i).inner = "Image"
        /\ BaseInner(i).class.class = "Storage"}

DeclaredBits(i) ==
    IF GlobalAt(i).space = "Storage" THEN GlobalAt(i).access ELSE BaseInner(i).class.access

AccessOfBits(bits) ==
    CASE bits = {LOAD, STORE} -> "ReadWrite"
      [] bits = {STORE} -> "WriteOnly"
      [] bits = {LOAD} -> "ReadOnly"
      [] bits = {} -> "ReadOnly"

C15_StorageTextureAccess ==
    Reflected
    => \A i \in StorageImageGlobals :
          /\ EntryOf(i).ty.kind = "StorageTexture"
          /\ EntryOf(i).ty.access = AccessOfBits(DeclaredBits(i))

C15_Witness ==
    /\ Reflected
    /\ StorageImageGlobals = {1}
    /\ GlobalAt(1).space = "Storage"
    /\ GlobalAt(1).access = {}
    /\ GlobalAt(1).ty = "ImageStorage"
    /\ EntryOf(1).ty.access = "ReadOnly"

C15_WitnessHandle ==
    /\ Reflected
    /\ StorageImageGlobals = {1}
    /\ GlobalAt(1).space = "Handle"
    /\ GlobalAt(1).ty = "ArrImageStorage"
    /\ EntryOf(1).ty.access = "ReadWrite"

C15_WitnessHandleNoBits ==
    /\ Reflected
    /\ StorageImageGlobals = {1}
    /\ GlobalAt(1).space = "Handle"
    /\ GlobalAt(1).ty = "ImageStorageNone"
    /\ EntryOf(1).ty.access = "ReadOnly"

(***************************************************************************)
(* C16: a sampler whose type has comparison = true is classified as        *)
(* Sampler{Comparison} under every sampler hint at its location and every  *)
(* base default.                                                           *)
(***************************************************************************)
SamplerGlobals(comparison) ==
    {i \in BoundGlobals :
        /\ GlobalAt(i).space = "Handle"
        /\ BaseType(module.types, GlobalAt(i).ty) \in DOMAIN module.types
        /\ BaseInner(i).inner = "Sampler"
        /\ BaseInner(i).comparison = comparison}

C16_ComparisonSamplerIgnoresHint ==
    Reflected
    => \A i \in SamplerGlobals(TRUE) :
          EntryOf(i).ty = [kind |-> "Sampler", sampler |-> "Comparison"]

C16_Witness ==
    /\ Reflected
    /\ SamplerGlobals(TRUE) = {1}
    /\ LocationOf(1) = HintedLocation
    /\ HintedLocation \in DOMAIN directives.sampler_hint
    /\ directives.sampler_hint[HintedLocation].filter = "Linear"
    /\ directives.sampler_hint[HintedLocation].comparison = None
    /\ directives.sampler_hint_base.filter = Some("Linear")
    /\ directives.sampler_hint_base.comparison = Some(None)
    /\ EntryOf(1).ty.sampler = "Comparison"

(***************************************************************************)
(* C17: a sampler whose type has comparison = false is classified as       *)
(* Sampler{NonFiltering} when the sampler hint the lookup returns for its  *)
(* location has the filter Nearest and as Sampler{Filtering} when it has   *)
(* the filter Linear; without override and without base default it is     *)
(* NonFiltering.                                                           *)
(***************************************************************************)
C17_SamplerFilteringFollowsHint ==
    Reflected
    => \A i \in SamplerGlobals(FALSE) :
          /\ EntryOf(i).ty.kind = "Sampler"
          /\ get_sampler_hint(directives, LocationOf(i)).filter = "Nearest"
             => EntryOf(i).ty.sampler = "NonFiltering"
          /\ get_sampler_hint(directives, LocationOf(i)).filter = "Linear"
             => EntryOf(i).ty.sampler = "Filtering"
          /\ (LocationOf(i) \notin DOMAIN directives.sampler_hint
              /\ directives.sampler_hint_base = SamplerHintPatchDefault)
             => EntryOf(i).ty.sampler = "NonFiltering"

C17_Witness ==
    /\ Reflected
    /\ SamplerGlobals(FALSE) = {1}
    /\ LocationOf(1) = HintedLocation
    /\ HintedLocation \in DOMAIN directives.sampler_hint
    /\ directives.sampler_hint[HintedLocation].filter = "Linear"
    /\ directives.sampler_hint_base = SamplerHintPatchDefault
    /\ EntryOf(1).ty.sampler = "Filtering"

C17_WitnessNoHint ==
    /\ Reflected
    /\ SamplerGlobals(FALSE) = {1}
    /\ GlobalAt(1).ty = "ArrSampler"
    /\ directives = DirectivesDefault
    /\ EntryOf(1).ty.sampler = "NonFiltering"

(***************************************************************************)
(* C18 as claimed: a global whose type is a binding array yields one entry *)
(* whose binding type is the classification of the base type and whose     *)
(* count is the constant size of the array, or 1 for an unbounded array; a *)
(* global whose type is not a binding array yields an entry without count. *)
(***************************************************************************)
IsBindingArray(i) ==
    GlobalAt(i).ty \in DOMAIN module.types /\ module.types[GlobalAt(i).ty].inner = "BindingArray"

\* the classification of global i had it the type ty
ClassifyAs(i, ty) ==
    process_global_var(directives, module.types, [GlobalAt(i) EXCEPT !.ty = ty],
                       AggregateVisibility)

BaseClassification(i) == ClassifyAs(i, BaseType(module.types, GlobalAt(i).ty))

DeclaredCount(i) ==
    LET array_size == module.types[GlobalAt(i).ty].array_size
    IN  IF array_size.kind = "Constant" THEN Some(array_size.n) ELSE Some(1)

C18_BindingArrayIsBaseWithCount ==
    /\ \A i \in BoundGlobals :
          (/\ pc # "source"
           /\ Len(module.entry_points) > 0
           /\ Len(module.global_variables) = 1
           /\ IsBindingArray(i)
           /\ BaseClassification(i).ok)
          => Reflected
    /\ Reflected
       => \A i \in BoundGlobals :
             IF IsBindingArray(i)
             THEN /\ BaseClassification(i).ok
                  /\ EntryOf(i).ty = unwrap(BaseClassification(i).val).info.entry.ty
                  /\ EntryOf(i).count = DeclaredCount(i)
             ELSE EntryOf(i).count = None

(***************************************************************************)
(* C19: the entry of a global of the Uniform address space that is not an  *)
(* acceleration structure is a uniform buffer whose has_dynamic_offset is  *)
(* the dynamic_offset of the uniform hint the lookup returns for its       *)
(* location and whose min_binding_size is present only if that hint has    *)
(* calculate_min_binding_size, in which case it is the non-zero size of    *)
(* the type; without hints the entry has no dynamic offset and no          *)
(* min_binding_size.                                                       *)
(***************************************************************************)
UniformBufferGlobals ==
    {i \in BoundGlobals :
        /\ GlobalAt(i).space = "Uniform"
        /\ BaseType(module.types, GlobalAt(i).ty) \in DOMAIN module.types
        /\ BaseInner(i).inner # "AccelerationStructure"}

C19_UniformBufferFollowsHint ==
    Reflected
    => \A i \in UniformBufferGlobals :
          LET hint == get_uniform_hint(directives, LocationOf(i))
              ty == EntryOf(i).ty
          IN  /\ ty.kind = "Buffer"
              /\ ty.ty.buf = "Uniform"
              /\ ty.has_dynamic_offset = hint.dynamic_offset
              /\ is_some(ty.min_binding_size) => hint.calculate_min_binding_size
              /\ (hint.calculate_min_binding_size /\ DeclaredSize(i) # u32(0))
                 => ty.min_binding_size = Some(DeclaredSize(i))
              /\ directives = DirectivesDefault
                 => ty = Buffer(BufferUniform, FALSE, None)

C19_Witness ==
    /\ Reflected
    /\ UniformBufferGlobals = {1}
    /\ LocationOf(1) = HintedLocation
    /\ GlobalAt(1).ty = "Struct"
    /\ HintedLocation \in DOMAIN directives.uniform_hints
    /\ directives.uniform_hint_base = UniformHintPatchDefault
    /\ EntryOf(1).ty = Buffer(BufferUniform, TRUE, Some(u32(8)))

C19_WitnessNoHints ==
    /\ Reflected
    /\ UniformBufferGlobals = {1}
    /\ LocationOf(1) = ResourceBinding(0, 0)
    /\ directives = DirectivesDefault
    /\ EntryOf(1).ty = Buffer(BufferUniform, FALSE, None)

(***************************************************************************)
(* C20 as claimed: a hint lookup returns the override of the location      *)
(* patched over the base default: at a location that has an override the   *)
(* fields keep the values of the override even when the base default sets  *)
(* them to other values, and at a location without override the result is  *)
(* the default hint.                                                       *)
(***************************************************************************)
C20_OverrideWinsOverBase ==
    query.op = "hints"
    => /\ IF query.binding \in DOMAIN directives.uniform_hints
          THEN query.uniform_hint = directives.uniform_hints[query.binding]
          ELSE query.uniform_hint = UniformHintDefault
       /\ IF query.binding \in DOMAIN directives.sampler_hint
          THEN query.sampler_hint = directives.sampler_hint[query.binding]
          ELSE query.sampler_hint = SamplerHintDefault

(***************************************************************************)
(* The table and its queries, over modules whose globals cover every       *)
(* address space, with and without a location, two globals at one location *)
(* and dangling type handles, under one or two entry points of any stage.  *)
(***************************************************************************)
TableEntryPoints ==
    {EntryPoint("main", "Compute", <<8, 8, 1>>),
     EntryPoint("zero", "Compute", <<8, 0, 1>>),
     EntryPoint("vs", "Vertex", <<0, 0, 0>>),
     EntryPoint("fs", "Fragment", <<0, 0, 0>>)}

\* no two functions of a shader share a name
TableEntryPointLists ==
    {eps \in SeqsUpTo(TableEntryPoints, 2) :
        \A i, j \in 1..Len(eps) : eps[i].name = eps[j].name => i = j}

AddressSpaces ==
    {"Function", "Private", "WorkGroup", "Uniform", "Storage", "Handle", "PushConstant"}

TableKinds ==
    {<<"Uniform", {}, "Struct">>, <<"Storage", {LOAD}, "Struct">>,
     <<"Handle", {}, "Sampler">>}

TableGlobals ==
    {Global(k[1], k[2], Some(loc), k[3], Some("name")) : k \in TableKinds, loc \in Locations}
    \cup {Global(space, {}, None, "Struct", Some("name")) : space \in AddressSpaces}
    \cup {Global(space, {}, Some(ResourceBinding(0, 0)), "Struct", Some("name")) :
            space \in {"Private", "PushConstant"}}
    \cup {Global(space, {}, Some(ResourceBinding(0, 0)), Dangling, Some("name")) :
            space \in {"Uniform", "Storage", "Handle"}}
    \cup {Global("PushConstant", {}, None, Dangling, None)}

TableModules ==
    {[entry_points |-> eps, global_variables |-> gs, types |-> InferTypes(u32(8))] :
        eps \in TableEntryPointLists, gs \in SeqsUpTo(TableGlobals, MaxGlobals)}

TableInit ==
    /\ overflow_checks = TRUE
    /\ module \in TableModules
    /\ directives = DirectivesDefault
    /\ pc = "source"
    /\ reflection_ctx = None
    /\ outcome = NoOutcome
    /\ query = NoQuery
    /\ caller = "none"
    /\ set = 0
    /\ bg_ct = 0
    /\ iter = 0
    /\ req = None
    /\ resource = NoResource
    /\ entries = <<>>
    /\ bind_groups = <<>>
    /\ device = <<>>
    /\ cp = PassLocals
    /\ pass_slot = None
    /\ pass = None
    /\ trace = <<>>

\* ComputeReflector::get_bind_group_layout_entry for any location
GetEntry ==
    /\ pc = "reflected"
    /\ query = NoQuery
    /\ \E s \in 0..(MaxGroup + 1), b \in BindingNumbers :
          query' = [op |-> "entry", set |-> s, binding |-> b,
                    entry |-> get_bind_group_layout_entry(table, s, b)]
    /\ pc' = "queried"
    /\ UNCHANGED <<inputVars, reflection_ctx, outcome, bindVars, passVars, trace>>

EntryPointNames == {ep.name : ep \in TableEntryPoints} \cup {"absent"}

\* ComputeReflector::work_group_size for any name
WorkGroupSize ==
    /\ pc = "reflected"
    /\ query = NoQuery
    /\ \E name \in EntryPointNames :
          query' = [op |-> "work_group_size", entry_point |-> name,
                    size |-> work_group_size(table, name)]
    /\ pc' = "queried"
    /\ UNCHANGED <<inputVars, reflection_ctx, outcome, bindVars, passVars, trace>>

TableNext == NewCompute \/ QueryGroup \/ GetEntry \/ WorkGroupSize

TableSpec == TableInit /\ [][TableNext]_vars

(***************************************************************************)
(* Vocabulary of the table properties                                      *)
(***************************************************************************)
BoundLocations == {LocationOf(i) : i \in BoundGlobals}

RECURSIVE SumLen(_, _)
SumLen(lists, n) == IF n = 0 THEN 0 ELSE SumLen(lists, n - 1) + Len(lists[n])

\* the number of entries over all the groups of the table
TotalEntries == SumLen(table.bindings, Len(table.bindings))

(***************************************************************************)
(* C21: after a successful inference the lookup of a location returns an   *)
(* entry exactly when the module declares a global with that (group,       *)
(* binding) in the Uniform, Storage or Handle address space; the globals   *)
(* of every other address space and the globals without a location add no  *)
(* entry to a group list and no key to the lookup map.                     *)
(***************************************************************************)
C21_EntryIffBoundGlobal ==
    /\ Reflected
       => /\ DOMAIN table.entry_map = BoundLocations
          /\ TotalEntries = Cardinality(BoundGlobals)
    /\ query.op = "entry"
       => /\ query.entry.ok
          /\ is_some(query.entry.val)
               <=> ResourceBinding(query.set, query.binding) \in BoundLocations

\* a Private global carries the location asked for, a Handle global another
C21_Witness ==
    /\ query.op = "entry"
    /\ Len(module.global_variables) = 2
    /\ GlobalAt(1).space = "Private"
    /\ GlobalAt(1).binding = Some(ResourceBinding(query.set, query.binding))
    /\ GlobalAt(2).space = "Handle"
    /\ GlobalAt(2).binding = Some(ResourceBinding(1, 0))
    /\ query.entry = Ok(None)

C21_WitnessFound ==
    /\ query.op = "entry"
    /\ Len(module.global_variables) = 2
    /\ GlobalAt(1).space = "PushConstant"
    /\ GlobalAt(2).space = "Storage"
    /\ query.set = 1
    /\ query.binding = 0
    /\ query.entry.ok
    /\ is_some(query.entry.val)
    /\ unwrap(query.entry.val).ty.kind = "Buffer"

(***************************************************************************)
(* C22: after a successful inference every entry of every group carries    *)
(* the same visibility, the union of the stage flags of all the entry      *)
(* points of the module, whatever the order of the entry points and of the *)
(* globals and whichever entry point uses the variable.                    *)
(***************************************************************************)
C22_EveryEntryHasAggregateVisibility ==
    Reflected
    => \A g \in 1..Len(table.bindings) :
          \A i \in 1..Len(table.bindings[g]) :
              table.bindings[g][i].visibility = AggregateVisibility

\* a compute entry point declared before a vertex entry point, two entries
C22_Witness ==
    /\ Reflected
    /\ Len(module.entry_points) = 2
    /\ module.entry_points[1].stage = "Compute"
    /\ module.entry_points[2].stage = "Vertex"
    /\ TotalEntries = 2
    /\ Len(table.bindings) = 2
    /\ Len(table.bindings[2]) = 1
    /\ table.bindings[1][1].visibility = {"VERTEX", "COMPUTE"}
    /\ table.bindings[2][1].visibility = {"VERTEX", "COMPUTE"}

(***************************************************************************)
(* C23: work_group_size(name) returns None when the entry point of that    *)
(* name declares 0 on any axis and when no entry point has that name; in   *)
(* every other case it returns the three sizes the entry point declares.   *)
(***************************************************************************)
C23_WorkGroupSize ==
    query.op = "work_group_size"
    => LET named == {i \in 1..Len(module.entry_points) :
                        module.entry_points[i].name = query.entry_point}
       IN  /\ named = {} => query.size = None
           /\ \A i \in named :
                 IF \E a \in 1..3 : module.entry_points[i].workgroup_size[a] = 0
                 THEN query.size = None
                 ELSE query.size = Some(module.entry_points[i].workgroup_size)

\* the sizes of a compute entry point declared after one with a zero axis
C23_Witness ==
    /\ query.op = "work_group_size"
    /\ Len(module.entry_points) = 2
    /\ module.entry_points[1].workgroup_size = <<8, 0, 1>>
    /\ module.entry_points[2].name = query.entry_point
    /\ query.size = Some(<<8, 8, 1>>)

C23_WitnessZeroAxis ==
    /\ query.op = "work_group_size"
    /\ Len(module.entry_points) = 2
    /\ module.entry_points[1].name = query.entry_point
    /\ module.entry_points[1].workgroup_size = <<8, 0, 1>>
    /\ module.entry_points[2].workgroup_size = <<8, 8, 1>>
    /\ query.size = None

C23_WitnessNoSuchName ==
    /\ query.op = "work_group_size"
    /\ query.entry_point = "absent"
    /\ Len(module.entry_points) = 1
    /\ module.entry_points[1].workgroup_size = <<8, 8, 1>>
    /\ query.size = None

\* the bound globals of group g among the first n globals, in declaration order
RECURSIVE DiscoveryOrder(_, _)
DiscoveryOrder(g, n) ==
    IF n = 0 THEN <<>>
    ELSE IF n \in BoundGlobals /\ LocationOf(n).group = g
         THEN Append(DiscoveryOrder(g, n - 1), n)
         ELSE DiscoveryOrder(g, n - 1)

\* the entry inference builds for global i
InferredEntry(i) == unwrap(ClassifyAs(i, GlobalAt(i).ty).val).info.entry

\* the entries of the bound globals of group g, in declaration order
DiscoveredEntries(g) ==
    LET order == DiscoveryOrder(g, Len(module.global_variables))
    IN  [k \in 1..Len(order) |-> InferredEntry(order[k])]

(***************************************************************************)
(* C24: the entry list of each group is in discovery order: when global A  *)
(* is declared before global B in the same group, the entry of A comes     *)
(* before the entry of B, whatever their binding numbers.                  *)
(***************************************************************************)
C24_EntriesInDiscoveryOrder ==
    /\ Reflected
       => \A g \in 0..(MaxGroup + 1) :
             get_bind_group_layout_entries(table, g) = DiscoveredEntries(g)
    /\ query.op = "entries" => query.entries = DiscoveredEntries(query.set)

\* binding 1 declared before binding 0 in group 0
C24_Witness ==
    /\ query.op = "entries"
    /\ query.set = 0
    /\ Len(module.global_variables) = 2
    /\ GlobalAt(1).binding = Some(ResourceBinding(0, 1))
    /\ GlobalAt(2).binding = Some(ResourceBinding(0, 0))
    /\ Len(query.entries) = 2
    /\ query.entries[1].binding = 1
    /\ query.entries[1].ty.kind = "Sampler"
    /\ query.entries[2].binding = 0
    /\ query.entries[2].ty.kind = "Buffer"

(***************************************************************************)
(* C28 as claimed: after inference over any sequence of globals the lookup *)
(* map and the group lists are in one-to-one correspondence: the number of *)
(* locations of the map is the number of entries over all groups, and no   *)
(* group holds two entries with the same binding number, also when two     *)
(* globals declare the same location.                                      *)
(***************************************************************************)
C28_MapAndListsOneToOne ==
    Reflected
    => /\ Cardinality(DOMAIN table.entry_map) = TotalEntries
       /\ \A g \in 1..Len(table.bindings) :
             \A i, j \in 1..Len(table.bindings[g]) :
                 table.bindings[g][i].binding = table.bindings[g][j].binding => i = j

\* the globals inference classifies whose type handle is not in the type arena
UnresolvedGlobals ==
    {i \in 1..Len(module.global_variables) :
        /\ i \in BoundGlobals \/ GlobalAt(i).space = "PushConstant"
        /\ GlobalAt(i).ty \notin DOMAIN module.types}

(***************************************************************************)
(* C26 as claimed: whenever the type handle of a bound global (Uniform,    *)
(* Storage, Handle) or of a push-constant global cannot be resolved in the *)
(* type arena of the module, inference fails with MissingTypeHandle and    *)
(* builds no table.                                                        *)
(***************************************************************************)
C26_UnresolvedHandleFails ==
    (/\ pc # "source"
     /\ Len(module.entry_points) > 0
     /\ UnresolvedGlobals # {})
    => /\ ~is_some(reflection_ctx)
       /\ outcome.result = "MissingTypeHandle"

\* the entry create_bind_group is at
VisitedEntry == get_bind_group_layout_entries(table, set)[iter + 1]

\* the BindSlot variant named after the binding type of an entry
MirrorVariant(entry) ==
    LET single == CASE entry.ty.kind = "Buffer" ->
                          IF entry.ty.ty.buf = "Uniform" THEN "UniformBuffer"
                          ELSE "StorageBuffer"
                     [] entry.ty.kind = "Sampler" -> "Sampler"
                     [] entry.ty.kind \in {"Texture", "StorageTexture"} -> "Texture"
                     [] entry.ty.kind = "AccelerationStructure" -> "AccelerationStructure"
    IN  IF is_some(entry.count) THEN <<single, "Array">> ELSE <<single>>

VariantName(slot) ==
    CASE slot.variant = "UniformBufferArray" -> <<"UniformBuffer", "Array">>
      [] slot.variant = "StorageBufferArray" -> <<"StorageBuffer", "Array">>
      [] slot.variant = "SamplerArray" -> <<"Sampler", "Array">>
      [] slot.variant = "TextureArray" -> <<"Texture", "Array">>
      [] OTHER -> <<slot.variant>>

NotYetImplemented == "panic: not yet implemented: I'm not sure if these are widely supported."

(***************************************************************************)
(* C25 as claimed: for every entry inference can put in a table (uniform   *)
(* buffer, storage buffer, sampler, texture, storage texture, acceleration *)
(* structure) bind-group construction creates one empty BindSlot at        *)
(* (group, entry.binding) whose variant mirrors the binding type of the    *)
(* entry, in the array form with entry_count = count exactly when the      *)
(* entry has a count and in the single form otherwise.                     *)
(***************************************************************************)
C25_SlotMirrorsEntry ==
    /\ outcome.result # NotYetImplemented
    /\ (pc = "func" /\ Len(trace) > 0 /\ Last(trace).ev = "create")
       => LET slot == unwrap(req)
          IN  /\ Last(trace).slot = slot
              /\ slot.loc = <<set, VisitedEntry.binding>>
              /\ slot.slot = None
              /\ VariantName(slot) = MirrorVariant(VisitedEntry)
              /\ slot.entry_count = VisitedEntry.count

(***************************************************************************)
(* Vocabulary of the pass properties                                       *)
(***************************************************************************)
\* the entries of group g that declare a dynamic offset, in list order
DynamicEntries(g) == SelectSeq(get_bind_group_layout_entries(table, g), IsDynamicEntry)

\* the locations of the dynamic entries of the groups 0..g, in visiting order
RECURSIVE DynamicSlotsUpTo(_)
DynamicSlotsUpTo(g) ==
    IF g < 0 THEN <<>>
    ELSE DynamicSlotsUpTo(g - 1)
         \o [k \in 1..Len(DynamicEntries(g)) |-> <<g, DynamicEntries(g)[k].binding>>]

IsOffsetCreate(e) == e.ev = "create" /\ e.slot.variant = "DynamicOffset"

InCreatePass == pc \in {"pass_func", "pass_take", "pass_returned"}

\* the values the caller logic left in the dynamic-offset slots of group g
FilledOffsets(g) ==
    LET hands == SelectSeq(trace, IsOffsetHand)
        before == Len(DynamicSlotsUpTo(g - 1))
    IN  [k \in 1..Len(DynamicEntries(g)) |-> Last(hands[before + k].puts)]

(***************************************************************************)
(* C27: create_pass creates a dynamic-offset slot that carries (group,     *)
(* binding) for exactly the entries of the bound groups whose binding type *)
(* has a dynamic offset, in group and entry order, and for no other entry; *)
(* the offsets recorded with a group are the values filled for the dynamic *)
(* entries of that group, in the order of its entry list.                  *)
(***************************************************************************)
C27_DynamicOffsetSlots ==
    InCreatePass
    => LET creates == SelectSeq(trace, IsOffsetCreate)
           expected == DynamicSlotsUpTo(Len(bind_groups) - 1)
       IN  /\ Len(creates) <= Len(expected)
           /\ \A k \in 1..Len(creates) :
                 /\ creates[k].slot.loc = expected[k]
                 /\ creates[k].slot.cell = None
           /\ pc = "pass_returned" => Len(creates) = Len(expected)
           /\ (pc = "pass_returned" /\ outcome.result = "Ok")
              => \A i \in 1..Len(unwrap(pass)) :
                    unwrap(pass)[i].cmd = "set_bind_group"
                    => unwrap(pass)[i].offsets = FilledOffsets(unwrap(pass)[i].set)

\* two dynamic entries in one group, binding 1 declared before binding 0
C27_Witness ==
    /\ pc = "pass_returned"
    /\ outcome.result = "Ok"
    /\ Len(bind_groups) = 1
    /\ DynamicSlotsUpTo(0) = <<<<0, 1>>, <<0, 0>>>>
    /\ \E i \in 1..Len(unwrap(pass)) :
          /\ unwrap(pass)[i].cmd = "set_bind_group"
          /\ unwrap(pass)[i].set = 0
          /\ unwrap(pass)[i].offsets = <<"offset_b", "offset_a">>

\* a sampler and a dynamic buffer: one slot, for the buffer, in the second group
C27_WitnessNotDynamic ==
    /\ pc = "pass_returned"
    /\ outcome.result = "Ok"
    /\ Len(bind_groups) = 2
    /\ Len(get_bind_group_layout_entries(table, 0)) = 1
    /\ get_bind_group_layout_entries(table, 0)[1].ty.kind = "Sampler"
    /\ LET creates == SelectSeq(trace, IsOffsetCreate)
       IN  /\ Len(creates) = 1
           /\ creates[1].slot.loc = <<1, 0>>

\* the commands recorded on the compute pass so far
Recorded == IF is_some(pass) THEN unwrap(pass) ELSE <<>>

IsPassHand(e) == IsPassEvent(e) /\ IsHand(e)

\* the number of slots create_pass has to hand to the caller logic
PassSlotCount ==
    Len(reflected_ranges(table)) + Len(DynamicSlotsUpTo(Len(bind_groups) - 1))

(***************************************************************************)
(* C29: create_pass records set_pipeline, set_push_constants and           *)
(* set_bind_group only after the caller logic has been invoked for every   *)
(* push-constant slot and every dynamic-offset slot and all of them were   *)
(* filled: while slots are being handed, and when the call returns         *)
(* PassConstruction, no command has been recorded.  On success the         *)
(* commands are set_pipeline, then the push constants, then the bind       *)
(* groups in ascending group index, one per bound group.                   *)
(***************************************************************************)
C29_CommandsAfterAllSlots ==
    /\ pc \in {"pass_func", "pass_take"} => Recorded = <<>>
    /\ (pc = "pass_returned" /\ outcome.result = "Err")
       => /\ outcome.error.error = "PassConstruction"
          /\ Recorded = <<>>
    /\ Recorded # <<>>
       => /\ pc = "pass_returned"
          /\ outcome = [call |-> "create_pass", result |-> "Ok"]
          /\ Len(SelectSeq(trace, IsPassHand)) = PassSlotCount
          /\ \A k \in 1..Len(trace) : IsPassHand(trace[k]) => trace[k].puts # <<>>
    /\ (pc = "pass_returned" /\ outcome.result = "Ok")
       => LET ranges == Len(reflected_ranges(table))
          IN  /\ Len(Recorded) = 1 + ranges + Len(bind_groups)
              /\ Recorded[1].cmd = "set_pipeline"
              /\ \A i \in 1..ranges : Recorded[1 + i].cmd = "set_push_constants"
              /\ \A g \in 1..Len(bind_groups) :
                    /\ Recorded[1 + ranges + g].cmd = "set_bind_group"
                    /\ Recorded[1 + ranges + g].set = g - 1
                    /\ Recorded[1 + ranges + g].group = bind_groups[g]

\* a push-constant range, a dynamic offset and two bind groups
C29_Witness ==
    /\ pc = "pass_returned"
    /\ outcome.result = "Ok"
    /\ Len(Recorded) = 4
    /\ Recorded[2].cmd = "set_push_constants"
    /\ Recorded[3].offsets = <<>>
    /\ Recorded[4].set = 1
    /\ Recorded[4].offsets # <<>>

\* the push-constant slot was filled, the dynamic-offset slot handed later was not
C29_WitnessError ==
    /\ pc = "pass_returned"
    /\ outcome.result = "Err"
    /\ Len(SelectSeq(trace, IsPassHand)) = 2
    /\ outcome.error.missing_push_constant_stages = <<>>
    /\ Len(outcome.error.missing_offsets) = 1
    /\ Recorded = <<>>

(***************************************************************************)
(* The reflector as the public constructor builds it: new_compute takes    *)
(* the directives from preprocessing::process and the module from the      *)
(* front end of the source language.                                       *)
(***************************************************************************)
PublicGlobals ==
    GlobalChoices
    \cup {Global("Handle", {}, Some(ResourceBinding(0, 0)), "SamplerCmp", Some("name"))}

PublicModules ==
    {[entry_points |-> eps, global_variables |-> gs, types |-> ModuleTypes] :
        eps \in EntryPointLists, gs \in SeqsUpTo(PublicGlobals, MaxGlobals)}

\* wgpu::ShaderSource: the language of the text, and the text, which stands
\* here as the module a front end parses from it
ShaderSources ==
    {[language |-> l, text |-> m] : l \in {"Wgsl", "Glsl", "SpirV"}, m \in PublicModules}

\* the match of new_compute on the source returned by process
parse(modified_source) ==
    IF modified_source.language \in {"Wgsl", "Glsl"}
    THEN Ok(modified_source.text)
    ELSE Err("UnsupportedSourceType")

\* new_compute up to the call of BindGroups::new
PublicInit ==
    /\ overflow_checks = TRUE
    /\ \E source \in ShaderSources :
          LET r == process(source)
          IN  /\ r.ok
              /\ directives = r.val[1]
              /\ parse(r.val[2]).ok
              /\ module = parse(r.val[2]).val
    /\ pc = "source"
    /\ reflection_ctx = None
    /\ outcome = NoOutcome
    /\ query = NoQuery
    /\ caller = "none"
    /\ set = 0
    /\ bg_ct = 0
    /\ iter = 0
    /\ req = None
    /\ resource = NoResource
    /\ entries = <<>>
    /\ bind_groups = <<>>
    /\ device = <<>>
    /\ cp = PassLocals
    /\ pass_slot = None
    /\ pass = None
    /\ trace = <<>>

PublicSpec == PublicInit /\ [][Next]_vars

\* the entry of bound global i in the list of its group
ListedEntry(i) ==
    get_bind_group_layout_entries(table, LocationOf(i).group)
        [Len(DiscoveryOrder(LocationOf(i).group, i))]

(***************************************************************************)
(* C30: for every reflector built through new_compute the hint overlay is  *)
(* empty, so every buffer entry has has_dynamic_offset = false and         *)
(* min_binding_size = None, every sampler that is not a comparison sampler *)
(* is NonFiltering, and create_pass never creates a dynamic-offset slot.   *)
(***************************************************************************)
C30_PublicReflectorHasNoHints ==
    /\ directives = DirectivesDefault
    /\ Reflected
       => /\ \A g \in 1..Len(table.bindings) :
                \A i \in 1..Len(table.bindings[g]) :
                    LET ty == table.bindings[g][i].ty
                    IN  /\ ty.kind = "Buffer"
                           => /\ ~ty.has_dynamic_offset
                              /\ ty.min_binding_size = None
                        /\ ty.kind = "Sampler" => ty.sampler # "Filtering"
          /\ \A i \in SamplerGlobals(FALSE) :
                ListedEntry(i).ty = [kind |-> "Sampler", sampler |-> "NonFiltering"]
          /\ \A i \in SamplerGlobals(TRUE) :
                ListedEntry(i).ty = [kind |-> "Sampler", sampler |-> "Comparison"]
    /\ \A k \in 1..Len(trace) : trace[k].slot.variant # "DynamicOffset"

\* a uniform buffer and a push constant: the pass hands one slot, the range
C30_Witness ==
    /\ pc = "pass_returned"
    /\ outcome.result = "Ok"
    /\ Len(module.global_variables) = 2
    /\ GlobalAt(1).space = "Uniform"
    /\ GlobalAt(1).ty = "Struct"
    /\ is_some(GlobalAt(1).binding)
    /\ LocationOf(1).group = 0
    /\ GlobalAt(2).space = "PushConstant"
    /\ Len(PassTrace) = 3
    /\ PassTrace[1].slot.variant = "PushConstantRange"
    /\ table.bindings[1][1].ty = Buffer(BufferUniform, FALSE, None)

C30_WitnessSamplers ==
    /\ Reflected
    /\ SamplerGlobals(FALSE) = {1}
    /\ SamplerGlobals(TRUE) = {2}
    /\ LocationOf(1) = ResourceBinding(0, 1)
    /\ ListedEntry(1).ty.sampler = "NonFiltering"
    /\ ListedEntry(2).ty.sampler = "Comparison"

=============================================================================
